---- MODULE Spec2Model ----
(***************************************************************************)
(* A model of file-store-rs: the B2 protocol client (session cache, retry  *)
(* on expiry, paginated listing), the local file backend (recursive        *)
(* listing, recursive delete, write from a stream, buffered read), the     *)
(* stream merger and the permit pool.                                      *)
(*                                                                         *)
(* Each subsystem has its own variables, its own initial predicate and its *)
(* own next-state relation; a specification runs one subsystem and leaves  *)
(* the variables of the others at their idle values.                       *)
(***************************************************************************)
EXTENDS Naturals, Integers, Sequences, FiniteSets, TLC

(***************************************************************************)
(* Bounds of the model.                                                    *)
(***************************************************************************)
\* concurrent callers of b2_api_call sharing one B2Client session
NumCallers == 2
\* tokens the authorization server issues in one behaviour
MaxTokens == 3
\* largest capacity K of a Limited pool
MaxK == 2
\* guards requested from the pool (through any clone of it)
NumGuards == 3
\* explicit release() calls on one guard
MaxReleaseCalls == 2
\* pages a listing is split into, and files on one page
MaxPages == 3
MaxPageItems == 3
\* streams pushed to one merger (seeded or inserted while it is consumed),
\* and their combined item count
MaxStreams == 3
MaxItems == 3
\* entries of the tree the file backend is connected to
MaxEntries == 3
\* entries of the trees on which another task is at work beside the operation
MaxRacedEntries == 2
\* chunks of the source stream of a round trip, and bytes of one chunk
MaxChunks == 2
MaxChunkLen == 11
\* the unit file sizes are counted in: one MiB of the program is MiB bytes
\* of the model
MiB == 1
\* ReaderStream: the largest initial_buffer_size and minimum_buffer_size, the
\* bytes the source holds, and the I/O errors the source reports
MaxBuffer == 3
MaxSourceLen == 4
MaxReadErrors == 1

(***************************************************************************)
(* Program constants.                                                      *)
(***************************************************************************)
\* b2.rs:62  const API_RETRIES: usize = 3;
API_RETRIES == 3
\* file.rs:38  const INITIAL_BUFFER_SIZE: usize = 20 * 1024 * 1024;
INITIAL_BUFFER_SIZE == 20 * MiB
\* file.rs:39  const MIN_BUFFER_SIZE: usize = 1 * 1024 * 1024;
MIN_BUFFER_SIZE == 1 * MiB

VARIABLES
    \* ---- B2Client (b2.rs) ----
    session,        \* Arc<Mutex<Option<AuthorizeAccountResponse>>>: 0 is None, n > 0 the token
    lock,           \* holder of the session mutex: 0 when free, else the caller
    pc,             \* position of each caller inside b2_api_call
    authorization,  \* b2_api_call's local `authorization` (the token of the attempt)
    tries,          \* b2_api_call's local `tries`
    attempts,       \* history: the POST attempts of the call, <<token, response kind>>
    handshakes,     \* history: authorize handshakes each caller sent during its call
    awaited,        \* history, for a caller waiting in session(): the token of the last
                    \* handshake of another caller that succeeded during the wait, else 0
    result,         \* what the call returned: "none" while running
    issued,         \* tokens the server has issued so far (tokens are 1..issued)
    \* ---- Limited / InUse (utils.rs) ----
    poolK,          \* `count` given to Limited::new: the capacity K
    permits,        \* permits the shared semaphore has free
    guard,          \* each take(): "none", "waiting" (in poll_acquire), "held" (InUse whose
                    \* permit is acquired), "released" (InUse whose permit is not), "dropped"
    releaseCalls,   \* history: explicit release() calls on each guard
    \* ---- ListFileNamesStream (b2.rs) ----
    pageSizes,      \* the server's listing: the number of files on each page
    failAt,         \* the page whose request the server fails (0: none)
    future,         \* the boxed b2_list_file_names future: st "none" (None), "new" (never
                    \* polled), "inflight" (polled, request sent), "ready"; start is
                    \* the request's start_file_name (0 is None, k the cursor of page k)
    results,        \* Vec<FileInfo> not yet emitted
    wake,           \* the consuming task is scheduled to poll the stream
    requests,       \* history: start cursors of the requests sent
    yielded,        \* history: items the stream emitted
    ended,          \* the stream returned Ready(None)
    \* ---- MergedStreams (types/stream.rs) ----
    mStreams,       \* the held streams, each the sequence of items it has still to yield
    mCursor,        \* the round-robin position: the stream the next poll visits first
    mCreated,       \* history: number of streams pushed so far
    mInserts,       \* history: streams pushed after the merger was seeded
    mTotal,         \* history: combined item count of all streams pushed (M)
    mYielded,       \* history: the set of items the merged stream emitted
    mCount,         \* history: how many items the merged stream emitted
    mDone,          \* the merged stream returned Ready(None)
    \* ---- FileBackend (file.rs) ----
    fs,             \* the entries beneath the root directory: path -> type and content
    fs0,            \* history: the entries when the backend was connected
    ops,            \* the operations the caller has still to start
    cur,            \* the operation last started
    fpc,            \* position inside the running operation: "idle" when none runs
    outcomes,       \* history: what each finished operation returned
    lsPrefix,       \* FileLister.prefix
    lsStreams,      \* the directories whose stream FileLister.stream holds unstarted
    lsOpen,         \* the directories read_dir has opened and whose names are not yet read
    lsItems,        \* the entries the started streams have read and still to stat
    lsOut,          \* history: the items the FileLister has yielded
    lsEnded,        \* the FileLister returned Ready(None)
    rmQueue,        \* delete_directory: the removals still to make, in order
    removals,       \* history: the entries removed, in order
    src,            \* write: lengths of the chunks the source stream has still to yield
    sent,           \* write: bytes the source stream has yielded
    chunk,          \* write: the chunk taken from the source and not yet written
    wrFile,         \* write: the file File::create has returned
    buffer,         \* ReadStream.buffer.len()
    rdFile,         \* ReadStream.reader: the file File::open has opened
    rdPos,          \* ReadStream.reader: the position in the file
    rdData,         \* history: the bytes the ReadStream has emitted
    rdErrors,       \* history: the error items the ReadStream has emitted
    \* ---- ReaderStream (utils.rs) and ReadStream (file.rs) over any source ----
    rsKind,         \* which of the two streams: "ReaderStream" or "ReadStream"
    rsInitial,      \* initial_buffer_size (INITIAL_BUFFER_SIZE for a ReadStream)
    rsMinimum,      \* minimum_buffer_size (MIN_BUFFER_SIZE for a ReadStream)
    rsBuffer,       \* buffer.len()
    rsLen,          \* the source: the number of bytes it holds
    rsPos,          \* the source: the bytes it has delivered
    rsErrors,       \* history: I/O errors the source has reported
    rsZero,         \* history: the source has answered a read with zero bytes
    rsItems,        \* history: the items the stream has emitted
    rsEnded,        \* the stream returned Ready(None)
    \* ---- one backend operation and the API response it gets (b2.rs) ----
    opBackend,      \* the backend the operation is called on: "B2" or "File"
    opName,         \* the operation of StorageBackend
    opPath,         \* the ObjectPath it is given
    opSession,      \* B2Client.session holds an authorization
    opCall,         \* the call of the client in progress: account_id or an API call
    opTries,        \* b2_api_call: tries
    opMethod,       \* the API method of the request last sent
    opResponse,     \* what the store answered that request with
    opPc,           \* "called", "session", "authorizing", "request", "reset", "stream" or "done"
    opReturned,     \* what the future of the operation returned: "None" before it has
    opResult,       \* what the operation ends with
    opError,        \* what B2Client::request made of the response, with its message
    \* ---- one operation of Fs (cloud-fs lib.rs) ----
    cfOp,           \* the operation of Fs
    cfPath,         \* the FsPath it is given
    cfAnswer,       \* what the backend answers when it is invoked
    cfPc,           \* "called", "backend" or "done"
    cfResult,       \* what the operation ends with
    cfInvoked,      \* history: the calls made to the backend
    \* ---- B2 list_objects: the choice of buckets (b2.rs 470-517) ----
    lbBackendPrefix, \* settings.prefix
    lbPrefix,       \* the prefix list_objects is given
    lbBuckets,      \* the names of the buckets of the account
    lbRequest,      \* the ListBucketsRequest sent: its bucket_name
    lbListers,      \* the ListFileNamesStreams created: bucket and prefix
    lbPc,           \* "called", "account", "requested" or "done"
    lbResult,       \* what list_objects returned: "none" before it has
    \* ---- connect of the two backends (file.rs 412-430, b2.rs 414-442) ----
    cnTree,         \* the host file system FileBackend::connect looks at
    cnRoot,         \* the root path it is given
    cnFile,         \* what FileBackend::connect returned: "None" before it has
    cnB2,           \* B2BackendBuilder::connect: "new", "authorizing", "Handle" or an error
    \* ---- FileLister over a tree with symlinks to directories (file.rs 192-301) ----
    wkTree,         \* the host file system
    wkLinks,        \* the directory each symlink of the tree points to, if any
    wkPrefix,       \* FileLister.prefix
    wkStreams,      \* the paths whose directory_stream was pushed and has not started
    wkOpen,         \* the directories read_dir has opened and whose names are not yet read
    wkItems,        \* the entries the started streams have read and still to stat
    wkReads,        \* history: the directories read_dir has read, in order
    wkOut,          \* history: the items the lister has yielded
    wkEnded         \* the lister has returned the end of the stream

b2vars == <<session, lock, pc, authorization, tries, attempts, handshakes, awaited, result, issued>>

poolvars == <<poolK, permits, guard, releaseCalls>>

listvars == <<pageSizes, failAt, future, results, wake, requests, yielded, ended>>

mergevars == <<mStreams, mCursor, mCreated, mInserts, mTotal, mYielded, mCount, mDone>>

lsvars == <<lsPrefix, lsStreams, lsOpen, lsItems, lsOut, lsEnded>>

wrvars == <<src, sent, chunk, wrFile>>

rdvars == <<buffer, rdFile, rdPos, rdData, rdErrors>>

fsvars == <<fs, fs0, ops, cur, fpc, outcomes, lsvars, rmQueue, removals, wrvars, rdvars>>

readervars == <<rsKind, rsInitial, rsMinimum, rsBuffer, rsLen, rsPos, rsErrors, rsZero,
                rsItems, rsEnded>>

opvars == <<opBackend, opName, opPath, opSession, opCall, opTries, opMethod, opResponse, opPc,
            opReturned, opResult, opError>>

cfvars == <<cfOp, cfPath, cfAnswer, cfPc, cfResult, cfInvoked>>

lbvars == <<lbBackendPrefix, lbPrefix, lbBuckets, lbRequest, lbListers, lbPc, lbResult>>

cnvars == <<cnTree, cnRoot, cnFile, cnB2>>
wkvars == <<wkTree, wkLinks, wkPrefix, wkStreams, wkOpen, wkItems, wkReads, wkOut, wkEnded>>

vars == <<b2vars, poolvars, listvars, mergevars, fsvars, readervars, opvars, cfvars, lbvars,
          cnvars, wkvars>>

\* what the actions of one subsystem leave alone
notB2 == <<poolvars, listvars, mergevars, fsvars, readervars, opvars, cfvars, lbvars, cnvars, wkvars>>
notPool == <<b2vars, listvars, mergevars, fsvars, readervars, opvars, cfvars, lbvars, cnvars, wkvars>>
notList == <<b2vars, poolvars, mergevars, fsvars, readervars, opvars, cfvars, lbvars, cnvars, wkvars>>
notMerge == <<b2vars, poolvars, listvars, fsvars, readervars, opvars, cfvars, lbvars, cnvars, wkvars>>
notFS == <<b2vars, poolvars, listvars, mergevars, readervars, opvars, cfvars, lbvars, cnvars, wkvars>>
notReader == <<b2vars, poolvars, listvars, mergevars, fsvars, opvars, cfvars, lbvars, cnvars, wkvars>>
notOps == <<b2vars, poolvars, listvars, mergevars, fsvars, readervars, cfvars, lbvars, cnvars, wkvars>>
notFsApi == <<b2vars, poolvars, listvars, mergevars, fsvars, readervars, opvars, lbvars, cnvars, wkvars>>
notBuckets == <<b2vars, poolvars, listvars, mergevars, fsvars, readervars, opvars, cfvars, cnvars, wkvars>>
notWalk == <<b2vars, poolvars, listvars, mergevars, fsvars, readervars, opvars, cfvars, lbvars,
            cnvars>>
notConnect == <<poolvars, listvars, mergevars, fsvars, readervars, opvars, cfvars, lbvars, wkvars>>

(***************************************************************************)
(* B2Client: session(), reset_session(), b2_api_call()   (b2.rs 186-270)   *)
(***************************************************************************)
Callers == 1..NumCallers

\* StorageErrorKind values that matter to the retry loop: AccessExpired is
\* retried, every other kind (here OtherError) is returned at once.
ErrorKinds == {"AccessExpired", "OtherError"}

\* What the server may answer to a POST.
Responses == {"Ok"} \cup ErrorKinds

\* What request() (b2.rs 155-184) ends with: the parsed response, a
\* StorageError, or the panic of `read_to_string(..).unwrap()` (168-171) when
\* the body of the answer cannot be read, which unwinds through the call.
RequestOutcomes == Responses \cup {"Abort"}

\* What the handshake request ends with when it does not return a session.
HandshakeFailures == ErrorKinds \cup {"Abort"}

\* b2_api_call (b2.rs 214-220): `to_string(&request)?` and
\* `Request::builder()...uri(api_url + method)...body(data.into())?` return
\* an error (InternalError, OtherError) before anything is sent, for a
\* request that does not serialize or a session whose api_url is no URI.
BuildErrors == {"OtherError"}

\* reset_session never clears: the cached session survives an expiry.
ResetSessionNeverClears(cached, auth_token) == cached

\* reset_session clears whatever is cached.
ResetSessionAlwaysClears(cached, auth_token) == 0

\* reset_session (b2.rs 252-259): the new value of the cache.
\*   if let Some(ref s) = session { if s.authorization_token == auth_token { session.take(); } }
ResetSession(cached, auth_token) ==
    IF cached # 0 /\ cached = auth_token THEN 0 ELSE cached

\* the retry test with an off-by-one: a fourth attempt is allowed.
RetryAllowedOffByOne(t) == t <= API_RETRIES

\* b2_api_call (b2.rs 228-231): after `tries += 1`, `if tries < API_RETRIES { continue; }`
RetryAllowed(t) == t < API_RETRIES

\* a retry loop that takes every error for an expired session.
IsAccessExpiredAny(r) == r # "Ok"

\* b2_api_call (b2.rs 225): e.kind() == error::StorageErrorKind::AccessExpired
IsAccessExpired(r) == r = "AccessExpired"

\* a retry loop that also retries a handshake that failed AccessExpired.
AfterHandshakeErrorRetried(e, t) ==
    IF IsAccessExpired(e) /\ RetryAllowed(t + 1) THEN "session" ELSE "done"

\* b2_api_call (b2.rs 210): `self.session().await?` returns the error of
\* the handshake from the call, outside the match that retries.
AfterHandshakeError(e, t) == "done"

\* session() that keeps the lock after returning the cached session.
LockAfterSessionCachedKept(c) == c

\* session() with a cached value (b2.rs 262-264, 270): the MutexGuard is a
\* local of session(), dropped when it returns.  0 is the free lock.
LockAfterSessionCached(c) == 0

\* session() that keeps the lock after the handshake.
LockAfterAuthorizeKept(c) == c

\* session() after the handshake (b2.rs 266-270): the MutexGuard is dropped
\* when session() returns.
LockAfterAuthorize(c) == 0

\* session() that sends the handshake without holding the lock.
LockForAuthorizeFree(c) == 0

\* session() with an empty cache (b2.rs 262, 266): the MutexGuard taken at
\* the lock().await is alive across the await of the handshake.
LockForAuthorize(c) == c

\* session() that returns the new session without caching it.
SessionReplaceSkipped(cached, new_session) == cached

\* session() (b2.rs 267): session.replace(new_session.clone())
SessionReplace(cached, new_session) == new_session

\* State after B2BackendBuilder::connect (b2.rs 428-436): the backend exists
\* only after session() succeeded, so the cache holds the first token.
B2Init ==
    /\ session = 1
    /\ issued = 1
    /\ lock = 0
    /\ pc = [c \in Callers |-> "idle"]
    /\ authorization = [c \in Callers |-> 0]
    /\ tries = [c \in Callers |-> 0]
    /\ attempts = [c \in Callers |-> <<>>]
    /\ handshakes = [c \in Callers |-> 0]
    /\ awaited = [c \in Callers |-> 0]
    /\ result = [c \in Callers |-> "none"]

\* b2_api_call entry (b2.rs 207): let mut tries = 0; loop { ...
Call(c) ==
    /\ pc[c] = "idle"
    /\ pc' = [pc EXCEPT ![c] = "session"]
    /\ tries' = [tries EXCEPT ![c] = 0]
    /\ UNCHANGED <<session, lock, authorization, attempts, handshakes, awaited, result, issued>>
    /\ UNCHANGED notB2

\* b2_api_call from the session to the request (b2.rs 209-222), for the
\* session() that returned `token`: the request is built and the POST is sent
\* with the Authorization header; when building it fails the `?` returns
\* the error from the call, outside the match that retries: nothing is sent
\* and neither reset_session nor `tries` is touched.  There is no await
\* between the return of session() and the first poll of the request, so
\* this is part of the step in which session() returns.
Send(c, token) ==
    /\ authorization' = [authorization EXCEPT ![c] = token]
    /\ \/ /\ pc' = [pc EXCEPT ![c] = "wait"]
          /\ attempts' = [attempts EXCEPT ![c] = Append(@, <<token, "sent">>)]
          /\ UNCHANGED result
       \/ \E e \in BuildErrors :
            /\ pc' = [pc EXCEPT ![c] = "done"]
            /\ result' = [result EXCEPT ![c] = e]
            /\ UNCHANGED attempts

\* session() with a cached value (b2.rs 262-264): lock, clone, unlock; then
\* b2_api_call copies the token (b2.rs 209-212) and sends the request.  No
\* await between lock and unlock, so they are one step.  The caller has
\* left session(): its wait is over (`awaited`).
SessionCached(c) ==
    /\ pc[c] = "session"
    /\ lock = 0
    /\ session # 0
    /\ lock' = LockAfterSessionCached(c)
    /\ Send(c, session)
    /\ awaited' = [awaited EXCEPT ![c] = 0]
    /\ UNCHANGED <<session, tries, handshakes, issued>>
    /\ UNCHANGED notB2

\* session() with an empty cache (b2.rs 262, 265-266): lock, then send the
\* authorize handshake and await it with the lock held.
SessionAuthorize(c) ==
    /\ pc[c] = "session"
    /\ lock = 0
    /\ session = 0
    /\ lock' = LockForAuthorize(c)
    /\ handshakes' = [handshakes EXCEPT ![c] = @ + 1]
    /\ pc' = [pc EXCEPT ![c] = "authorizing"]
    /\ awaited' = [awaited EXCEPT ![c] = 0]
    /\ UNCHANGED <<session, authorization, tries, attempts, result, issued>>
    /\ UNCHANGED notB2

\* the handshake succeeds (b2.rs 266-268): cache the new session, unlock,
\* return it; b2_api_call copies its token and sends the request.  The
\* callers that are waiting in session() (b2.rs 262, the lock().await) have
\* waited through this handshake: `awaited` records its token for them.
AuthorizeOk(c) ==
    /\ pc[c] = "authorizing"
    /\ lock = c
    /\ issued < MaxTokens
    /\ issued' = issued + 1
    /\ session' = SessionReplace(session, issued + 1)
    /\ lock' = LockAfterAuthorize(c)
    /\ Send(c, issued + 1)
    /\ awaited' = [d \in Callers |->
                     IF d # c /\ pc[d] = "session" THEN issued + 1 ELSE awaited[d]]
    /\ UNCHANGED <<tries, handshakes>>
    /\ UNCHANGED notB2

\* the handshake fails (b2.rs 266 `?`, then 210 `?`): the guard is dropped,
\* the cache stays empty and b2_api_call returns the error.  When the body of
\* the answer cannot be read request() panics (b2.rs 168-171): the unwinding
\* drops the guard the same way and the call ends in Abort.
AuthorizeFail(c) ==
    /\ pc[c] = "authorizing"
    /\ lock = c
    /\ \E e \in HandshakeFailures :
         /\ result' = [result EXCEPT ![c] = e]
         /\ pc' = [pc EXCEPT ![c] = AfterHandshakeError(e, tries[c])]
    /\ lock' = 0
    /\ UNCHANGED <<session, authorization, tries, attempts, handshakes, awaited, issued>>
    /\ UNCHANGED notB2

\* the response arrives (b2.rs 222-225): Ok returns, AccessExpired goes on to
\* reset_session, any other error returns; a panic of request() (b2.rs
\* 168-171) ends the call in Abort with the cache as it is.
Respond(c) ==
    /\ pc[c] = "wait"
    /\ \E r \in RequestOutcomes :
         /\ attempts' = [attempts EXCEPT ![c][Len(attempts[c])] = <<authorization[c], r>>]
         /\ IF IsAccessExpired(r)
              THEN /\ pc' = [pc EXCEPT ![c] = "reset"]
                   /\ UNCHANGED result
              ELSE /\ pc' = [pc EXCEPT ![c] = "done"]
                   /\ result' = [result EXCEPT ![c] = r]
    /\ UNCHANGED <<session, lock, authorization, tries, handshakes, awaited, issued>>
    /\ UNCHANGED notB2

\* reset_session(&authorization), tries += 1, continue or return Err(e)
\* (b2.rs 226-233).  reset_session holds the lock without awaiting.
Reset(c) ==
    /\ pc[c] = "reset"
    /\ lock = 0
    /\ session' = ResetSession(session, authorization[c])
    /\ tries' = [tries EXCEPT ![c] = @ + 1]
    /\ IF RetryAllowed(tries[c] + 1)
         THEN /\ pc' = [pc EXCEPT ![c] = "session"]
              /\ UNCHANGED result
         ELSE /\ pc' = [pc EXCEPT ![c] = "done"]
              /\ result' = [result EXCEPT ![c] = "AccessExpired"]
    /\ UNCHANGED <<lock, authorization, attempts, handshakes, awaited, issued>>
    /\ UNCHANGED notB2

NextB2 ==
    \E c \in Callers :
        \/ Call(c)
        \/ SessionCached(c)
        \/ SessionAuthorize(c)
        \/ AuthorizeOk(c)
        \/ AuthorizeFail(c)
        \/ Respond(c)
        \/ Reset(c)

(***************************************************************************)
(* Limited<T> and InUse<T>: the permit pool   (utils.rs 124-196)           *)
(***************************************************************************)
Guards == 1..NumGuards

\* a pool nobody has taken from: Limited::new(base, count) (utils.rs 137-142)
PoolNew(k) ==
    /\ poolK = k
    /\ permits = k
    /\ guard = [g \in Guards |-> "none"]
    /\ releaseCalls = [g \in Guards |-> 0]

HeldGuards == {g \in Guards : guard[g] = "held"}

\* poll_acquire succeeding although the semaphore has no permit left
CanAcquireAlways(free) == free >= 0

\* Permit::poll_acquire (utils.rs 147): Ready only when the semaphore has a permit
CanAcquire(free) == free > 0

\* a release() that keeps the permit
PermitsAfterReleaseKept(acquired, free) == free

\* release() without the is_acquired test: a permit is added on every call
PermitsAfterReleaseUnchecked(acquired, free) == free + 1

\* InUse::release (utils.rs 169-175): the semaphore's free permits afterwards.
\*   if !self.permit.is_acquired() { return; }  self.permit.release(&self.semaphore);
PermitsAfterRelease(acquired, free) == IF acquired THEN free + 1 ELSE free

\* take() is called on the pool or a clone of it (utils.rs 144-147): a new
\* Permit starts to wait on the shared semaphore.
Take(g) ==
    /\ guard[g] = "none"
    /\ guard' = [guard EXCEPT ![g] = "waiting"]
    /\ UNCHANGED <<poolK, permits, releaseCalls>>
    /\ UNCHANGED notPool

\* poll_acquire returns Ready and take() returns the InUse (utils.rs 147-158)
Acquire(g) ==
    /\ guard[g] = "waiting"
    /\ CanAcquire(permits)
    /\ permits' = permits - 1
    /\ guard' = [guard EXCEPT ![g] = "held"]
    /\ UNCHANGED <<poolK, releaseCalls>>
    /\ UNCHANGED notPool

\* an explicit release() on a live guard (utils.rs 169-175)
Release(g) ==
    /\ guard[g] \in {"held", "released"}
    /\ releaseCalls[g] < MaxReleaseCalls
    /\ releaseCalls' = [releaseCalls EXCEPT ![g] = @ + 1]
    /\ permits' = PermitsAfterRelease(guard[g] = "held", permits)
    /\ guard' = [guard EXCEPT ![g] = "released"]
    /\ UNCHANGED poolK
    /\ UNCHANGED notPool

\* the guard goes out of scope: Drop calls release() (utils.rs 192-196)
Drop(g) ==
    /\ guard[g] \in {"held", "released"}
    /\ permits' = PermitsAfterRelease(guard[g] = "held", permits)
    /\ guard' = [guard EXCEPT ![g] = "dropped"]
    /\ UNCHANGED <<poolK, releaseCalls>>
    /\ UNCHANGED notPool

NextPool ==
    \E g \in Guards :
        \/ Take(g)
        \/ Acquire(g)
        \/ Release(g)
        \/ Drop(g)


(***************************************************************************)
(* ListFileNamesStream: the paginated listing   (b2.rs 274-342)            *)
(*                                                                         *)
(* The boxed future is an async fn: nothing is sent before its first poll, *)
(* and a poll that returns Pending registers the task's waker with it.  The*)
(* consumer polls the stream when it is first driven, after every item,    *)
(* and when a waker registered by an earlier poll fires.                   *)
(***************************************************************************)
NoFuture == [st |-> "none", start |-> 0]

\* the files of page k, and the error item of a failed request
PageItems(k) == [j \in 1..pageSizes[k] |-> <<k, j>>]
ErrItem == <<0, 0>>

RECURSIVE ItemsUpTo(_)
ItemsUpTo(k) == IF k = 0 THEN <<>> ELSE ItemsUpTo(k - 1) \o PageItems(k)
AllItems == ItemsUpTo(Len(pageSizes))

\* the server's answer to a request whose start cursor is `start`: the next
\* page, with its cursor unless it is the last page
ListResponse(start) ==
    [ok |-> failAt # start + 1,
     files |-> PageItems(start + 1),
     next |-> IF start + 1 < Len(pageSizes) THEN start + 1 ELSE 0]

\* ListFileNamesStream::new (b2.rs 285-300): the first request is boxed, not
\* yet polled; the consumer is about to poll the stream.
ListNew(sizes, fail) ==
    /\ pageSizes = sizes
    /\ failAt = fail
    /\ future = [st |-> "new", start |-> 0]
    /\ results = <<>>
    /\ wake = TRUE
    /\ requests = <<>>
    /\ yielded = <<>>
    /\ ended = FALSE

\* the follow-up request repeats the options unchanged
FollowUpSameCursor(options_start, fname) == options_start

\* b2.rs 314-315: next = options.clone(); next.start_file_name = Some(fname)
FollowUp(options_start, fname) == fname

\* b2.rs 307-330: the future after it was polled
FutureAfterPoll ==
    CASE future.st = "new" -> [future EXCEPT !.st = "inflight"]
      [] future.st = "ready" ->
           LET r == ListResponse(future.start) IN
           IF r.ok /\ r.next # 0
             THEN [st |-> "new", start |-> FollowUp(future.start, r.next)]
             ELSE NoFuture
      [] OTHER -> future

\* b2.rs 310-311: self.results.extend(result.files)
ResultsAfterPoll ==
    IF future.st = "ready" /\ ListResponse(future.start).ok
      THEN results \o ListResponse(future.start).files
      ELSE results

\* a stream that drops what it has buffered when a request fails
ResultsAfterErrorCleared(buffered) == <<>>

\* b2.rs 326-329: Poll::Ready(Err(e)) clears the future and returns the
\* error; self.results is not touched
ResultsAfterError(buffered) == buffered

\* poll_next (b2.rs 306-341)
ListPoll ==
    /\ wake
    /\ ~ended
    /\ future' = FutureAfterPoll
    /\ requests' = IF future.st = "new" THEN Append(requests, future.start) ELSE requests
    /\ IF future.st = "ready" /\ ~ListResponse(future.start).ok
         THEN \* Poll::Ready(Err(e)) => return Poll::Ready(Some(Err(e)))
              /\ yielded' = Append(yielded, ErrItem)
              /\ results' = ResultsAfterError(results)
              /\ UNCHANGED <<wake, ended>>
         ELSE IF ResultsAfterPoll # <<>>
           THEN \* return Poll::Ready(Some(Ok(self.results.remove(0))))
                /\ yielded' = Append(yielded, Head(ResultsAfterPoll))
                /\ results' = Tail(ResultsAfterPoll)
                /\ UNCHANGED <<wake, ended>>
           ELSE IF FutureAfterPoll.st = "none"
             THEN \* Poll::Ready(None)
                  /\ ended' = TRUE
                  /\ wake' = FALSE
                  /\ UNCHANGED <<results, yielded>>
             ELSE \* Poll::Pending
                  /\ wake' = FALSE
                  /\ UNCHANGED <<results, yielded, ended>>
    /\ UNCHANGED <<pageSizes, failAt>>
    /\ UNCHANGED notList

\* the response of the request in flight arrives (b2.rs 165): the future
\* becomes ready and wakes the task that polled it
ListRespond ==
    /\ future.st = "inflight"
    /\ future' = [future EXCEPT !.st = "ready"]
    /\ wake' = TRUE
    /\ UNCHANGED <<pageSizes, failAt, results, requests, yielded, ended>>
    /\ UNCHANGED notList

NextList ==
    \/ ListPoll
    \/ ListRespond

PageSizeSeqs == UNION {[1..n -> 0..MaxPageItems] : n \in 1..MaxPages}


(***************************************************************************)
(* MergedStreams: the fan-in combinator.  Its source (types/stream.rs) is  *)
(* not among the files; it is modelled from the specification, section 4.3:*)
(* each poll visits the held streams in round-robin order, returns the     *)
(* first item found and keeps that position, removes the streams that      *)
(* signal completion, and completes only once no stream is held.           *)
(***************************************************************************)
\* the items of the n-th stream pushed, of length len
StreamItems(n, len) == [k \in 1..len |-> <<n, k>>]

\* the indexes 1..n in round-robin order starting at first
VisitOrder(n, first) == [i \in 1..n |-> ((first + i - 2) % n) + 1]

RECURSIVE SumLens(_)
SumLens(lens) == IF lens = <<>> THEN 0 ELSE Head(lens) + SumLens(Tail(lens))

\* visit the streams in `order`; `pend` are the streams that answer Pending.
\* Gives the stream that yielded (at, 0 if none) and the completed streams.
RECURSIVE Visit(_, _, _, _)
Visit(order, streams, pend, removed) ==
    IF order = <<>> THEN [at |-> 0, removed |-> removed]
    ELSE LET i == Head(order) IN
         IF i \in pend THEN Visit(Tail(order), streams, pend, removed)
         ELSE IF streams[i] = <<>>
           THEN Visit(Tail(order), streams, pend, removed \cup {i})
           ELSE [at |-> i, removed |-> removed]

\* the held streams after a poll: completed ones removed, the yielding one advanced
RECURSIVE Rebuild(_, _, _, _)
Rebuild(streams, i, at, removed) ==
    IF i > Len(streams) THEN <<>>
    ELSE (IF i \in removed THEN <<>>
          ELSE <<IF i = at THEN Tail(streams[i]) ELSE streams[i]>>)
         \o Rebuild(streams, i + 1, at, removed)

\* a merger that reports completion when no held stream is ready
MergedCompleteWhenIdle(streamsAfter, at) == at = 0

\* the merger completes only once the set of held streams is empty
MergedComplete(streamsAfter, at) == at = 0 /\ streamsAfter = <<>>

\* MergedStreams::new() followed by a push of each seed stream
MergeNew(lens) ==
    /\ mStreams = [n \in 1..Len(lens) |-> StreamItems(n, lens[n])]
    /\ mCursor = 1
    /\ mCreated = Len(lens)
    /\ mInserts = 0
    /\ mTotal = SumLens(lens)
    /\ mYielded = {}
    /\ mCount = 0
    /\ mDone = FALSE

\* MergedStreams::push while the merged stream is being consumed, as
\* FileLister::add_directory does (file.rs 273-275)
MergePush ==
    /\ ~mDone
    /\ mCreated < MaxStreams
    /\ \E len \in 0..(MaxItems - mTotal) :
         /\ mStreams' = Append(mStreams, StreamItems(mCreated + 1, len))
         /\ mTotal' = mTotal + len
    /\ mCreated' = mCreated + 1
    /\ mInserts' = mInserts + 1
    /\ UNCHANGED <<mCursor, mYielded, mCount, mDone>>
    /\ UNCHANGED notMerge

\* MergedStreams::poll_next when the streams in `pend` answer Pending
MergePollWith(pend) ==
    /\ ~mDone
    /\ pend \subseteq 1..Len(mStreams)
    /\ LET v == Visit(VisitOrder(Len(mStreams), mCursor), mStreams, pend, {})
           after == Rebuild(mStreams, 1, v.at, v.removed)
           shift(i) == i - Cardinality({j \in v.removed : j < i})
       IN /\ mStreams' = after
          /\ mCursor' = IF v.at # 0 THEN shift(v.at)
                        ELSE IF shift(mCursor) \in 1..Len(after) THEN shift(mCursor) ELSE 1
          /\ mYielded' = IF v.at # 0 THEN mYielded \cup {Head(mStreams[v.at])}
                         ELSE mYielded
          /\ mCount' = IF v.at # 0 THEN mCount + 1 ELSE mCount
          /\ mDone' = MergedComplete(after, v.at)
    /\ UNCHANGED <<mCreated, mInserts, mTotal>>
    /\ UNCHANGED notMerge

\* MergedStreams::poll_next, with any subset of the held streams not ready
MergePoll == \E pend \in SUBSET (1..Len(mStreams)) : MergePollWith(pend)

NextMerge ==
    \/ MergePush
    \/ MergePoll

SeedLens ==
    {lens \in UNION {[1..n -> 0..MaxItems] : n \in 0..MaxStreams} : SumLens(lens) <= MaxItems}

(***************************************************************************)
(* ObjectPath   (types/path.rs)                                            *)
(* A path is the sequence of its parts; a directory-prefix path ends with  *)
(* the empty part, which is what push_part("") appends.                    *)
(***************************************************************************)
Names == {"a", "b"}

HasDirMarker(path) == path # <<>> /\ path[Len(path)] = ""

\* the non-empty parts, which is all get_std_path adds to the base
Parts(path) == IF HasDirMarker(path) THEN SubSeq(path, 1, Len(path) - 1) ELSE path

IsDirPrefix(path) == path = <<>> \/ HasDirMarker(path)

PushPart(path, part) == Append(Parts(path), part)

PopPart(path) == IF path = <<>> THEN <<>> ELSE SubSeq(path, 1, Len(path) - 1)

\* parts are compared positionally; the directory marker of the prefix
\* counts only against a candidate that is not longer than the prefix
StartsWith(path, other) ==
    LET mine == Parts(path)
        theirs == Parts(other)
    IN  IF Len(mine) > Len(theirs)
        THEN SubSeq(mine, 1, Len(theirs)) = theirs
        ELSE mine = theirs /\ (HasDirMarker(other) => HasDirMarker(path))

(***************************************************************************)
(* The host file system beneath FileSpace.base: a function from the paths  *)
(* of the existing entries to their type and content.  The base directory  *)
(* itself is the path <<>> and always exists.  A symlink points to a       *)
(* regular file, to a directory outside the base, or to nothing: `to` says *)
(* which, `data` is the content of the file it points to, and the entries  *)
(* of the directory it points to are the entries the tree holds beneath    *)
(* the link.  The host follows the symlinks on the way to a path, and      *)
(* read_dir and File::create also follow a symlink they are given.         *)
(***************************************************************************)
\* a is a prefix of b
IsPrefix(a, b) == Len(a) <= Len(b) /\ a = SubSeq(b, 1, Len(a))

Bytes(n) == [i \in 1..n |-> i]

Entry(type) ==
    [type |-> type, to |-> "None", data |-> IF type = "File" THEN <<0>> ELSE <<>>]

\* a regular file with the given content
FileEntry(data) == [type |-> "File", to |-> "None", data |-> data]

\* what a symlink may point to: a regular file, a directory outside the
\* base, a missing name in a directory that exists ("Dangling"), or a name
\* in a directory that does not exist either ("Nowhere")
LinkTargets == {"File", "Directory", "Dangling", "Nowhere"}

\* a symlink; one that points to a regular file shows that file's content
Link(to) == [type |-> "Symlink", to |-> to, data |-> IF to = "File" THEN <<0>> ELSE <<>>]

EmptyTree == [q \in {} |-> Entry("File")]

IsDirectory(tree, target) ==
    target = <<>> \/ (target \in DOMAIN tree /\ tree[target].type = "Directory")

Children(tree, target) == {q \in DOMAIN tree : Len(q) = Len(target) + 1 /\ PopPart(q) = target}

\* the entry is a symlink that points to `to`
LinksTo(tree, target, to) ==
    target \in DOMAIN tree /\ tree[target].type = "Symlink" /\ tree[target].to = to

\* the entry is a symlink that points to nothing
Dangles(tree, target) ==
    LinksTo(tree, target, "Dangling") \/ LinksTo(tree, target, "Nowhere")

\* the host resolves the path to a directory: the base, a directory, or a
\* symlink to a directory
ResolvesToDirectory(tree, target) ==
    IsDirectory(tree, target) \/ LinksTo(tree, target, "Directory")

\* a proper ancestor of the target that resolves to a regular file: a file,
\* or a symlink to one
BlockedBy(tree, target) ==
    \E k \in 1..(Len(target) - 1) :
        LET ancestor == SubSeq(target, 1, k)
        IN  /\ ancestor \in DOMAIN tree
            /\ tree[ancestor].type = "File" \/ LinksTo(tree, ancestor, "File")

AddEntry(tree, target, entry) ==
    [q \in DOMAIN tree \cup {target} |-> IF q = target THEN entry ELSE tree[q]]

\* the tree without the entry; with a symlink to a directory go the entries
\* seen through it, which stay where they are, outside the base
RemoveEntry(tree, target) ==
    [q \in {r \in DOMAIN tree : ~IsPrefix(target, r)} |-> tree[q]]

\* io::ErrorKind of a lookup that fails: NotADirectory beneath what resolves
\* to a regular file, NotFound where an entry is missing, as it is beneath a
\* dangling symlink
LookupError(tree, target) == IF BlockedBy(tree, target) THEN "NotADirectory" ELSE "NotFound"

\* each primitive gives "Ok" or the io::ErrorKind it fails with
symlink_metadata(tree, target) ==
    IF target = <<>> \/ target \in DOMAIN tree THEN "Ok" ELSE LookupError(tree, target)

read_dir(tree, target) ==
    IF ResolvesToDirectory(tree, target) THEN "Ok"
    ELSE IF Dangles(tree, target) THEN "NotFound"
    ELSE IF target \in DOMAIN tree THEN "NotADirectory"
    ELSE LookupError(tree, target)

remove_file(tree, target) ==
    IF target = <<>> THEN "IsADirectory"
    ELSE IF target \notin DOMAIN tree THEN LookupError(tree, target)
    ELSE IF tree[target].type = "Directory" THEN "IsADirectory"
    ELSE "Ok"

remove_dir(tree, target) ==
    IF target # <<>> /\ target \notin DOMAIN tree THEN LookupError(tree, target)
    ELSE IF ~IsDirectory(tree, target) THEN "NotADirectory"
    ELSE IF Children(tree, target) # {} THEN "DirectoryNotEmpty"
    ELSE "Ok"

\* File::create follows a symlink it is given: the file the symlink points
\* to is created when its directory exists
FileCreate(tree, target) ==
    IF ResolvesToDirectory(tree, target) THEN "IsADirectory"
    ELSE IF BlockedBy(tree, target) THEN "NotADirectory"
    ELSE IF ~ResolvesToDirectory(tree, PopPart(target)) THEN "NotFound"
    ELSE IF LinksTo(tree, target, "Nowhere") THEN "NotFound"
    ELSE "Ok"

\* File::open follows a symlink it is given; a directory is opened like a
\* file, and it is the read that fails
FileOpen(tree, target) ==
    IF target = <<>> THEN "Ok"
    ELSE IF target \notin DOMAIN tree THEN LookupError(tree, target)
    ELSE IF Dangles(tree, target) THEN "NotFound"
    ELSE "Ok"

\* what an open file gives its reader: the content the path had when it
\* was opened, whatever becomes of the path afterwards
NoFile == [type |-> "None", data |-> <<>>]
FileHandle(tree, target) ==
    IF ResolvesToDirectory(tree, target) THEN [type |-> "Directory", data |-> <<>>]
    ELSE [type |-> "File", data |-> tree[target].data]

\* the tree after File::create succeeded: the file is there and empty; the
\* file a symlink points to is created or truncated and the symlink stays
Created(tree, target) ==
    IF target \in DOMAIN tree /\ tree[target].type = "Symlink"
    THEN [tree EXCEPT ![target] = [type |-> "Symlink", to |-> "File", data |-> <<>>]]
    ELSE AddEntry(tree, target, FileEntry(<<>>))

\* file.rs 133-138
get_storage_error(error) == IF error = "NotFound" THEN "NotFound" ELSE "OtherError"

\* file.rs 182-190
get_std_path(path) == Parts(path)

\* what an operation returns
Ok == [tag |-> "Ok", kind |-> "None"]
Err(kind) == [tag |-> "Err", kind |-> kind]
TargetError(kind) == [tag |-> "TargetError", kind |-> kind]
SourceError(kind) == [tag |-> "SourceError", kind |-> kind]

(***************************************************************************)
(* The trees a behaviour starts from: every tree of at most MaxEntries     *)
(* entries named from Names, built by adding one entry at a time below the *)
(* base, below a directory or below a symlink to a directory.  The         *)
(* symlinks of one tree point to the same kind of target.                  *)
(***************************************************************************)
ObjectTypes == {"File", "Directory", "Symlink"}

NewEntry(type, to) == IF type = "Symlink" THEN Link(to) ELSE Entry(type)

Extensions(tree, to) ==
    {AddEntry(tree, new[1], NewEntry(new[2], to)) :
        new \in {x \in (UNION {{Append(d, n) : n \in Names} :
                                d \in DOMAIN tree \cup {<<>>}}) \X ObjectTypes :
                    /\ x[1] \notin DOMAIN tree
                    /\ ResolvesToDirectory(tree, PopPart(x[1]))}}

\* the symlinks of the trees a behaviour starts from; a symlink to nowhere
\* differs from a dangling one only when File::create follows it
InitialLinks == {"File", "Directory", "Dangling"}

TreesOf[k \in 0..MaxEntries, to \in InitialLinks] ==
    IF k = 0 THEN {EmptyTree}
    ELSE TreesOf[k - 1, to] \cup UNION {Extensions(t, to) : t \in TreesOf[k - 1, to]}

Trees == UNION {TreesOf[MaxEntries, to] : to \in InitialLinks}

(***************************************************************************)
(* directory_stream and FileLister   (file.rs 192-301)                     *)
(* The lister's MergedStreams holds one stream per directory it has added. *)
(* A stream opens its directory with read_dir when it is first polled,     *)
(* reads the names the directory holds at its next poll, and stats each    *)
(* entry when it comes to it: lsStreams are the directories whose stream   *)
(* has not started, lsOpen the directories opened and not yet read,        *)
(* lsItems the entries read and not yet stat'ed, and the merger may go on  *)
(* with any of them.                                                       *)
(***************************************************************************)
Object(path, type) == [err |-> "None", path |-> path, type |-> type]
ErrorItem(kind, path) == [err |-> kind, path |-> path, type |-> "Unknown"]

\* an entry the open directory gave, which the stream has still to stat
DirEntry(path) == [err |-> "None", path |-> path, type |-> "None"]

\* file.rs 227-234: fname.into_string() fails for a name that is not
\* Unicode; the names of the model's trees all are
IsUnicode(name) == name \in Names

\* file.rs 197-206: build_base opens the directory with read_dir and reads
\* none of its entries: "Ok", or the storage error of the read_dir.  A host
\* that denies the reading of directories fails every read_dir.
build_base(tree, path, fault) ==
    LET opened == IF fault = "read_dir" THEN "PermissionDenied"
                  ELSE read_dir(tree, get_std_path(path))
    IN  IF opened = "Ok" THEN "Ok" ELSE get_storage_error(opened)

\* the tokio_fs::ReadDir that read_dir returned: the open directory.  While
\* it is `live` the directory is the one the path leads to; once another
\* task has removed or replaced what the path led to, `names` are the names
\* the open directory still holds.
ReadDir(path) == [path |-> path, live |-> TRUE, names |-> {}]

EntryNames(tree, target) == {q[Len(q)] : q \in Children(tree, target)}

\* file.rs 222-224: the entries the open directory gives when it is read
DirEntries(tree, dir) ==
    LET target == get_std_path(dir.path)
    IN  {DirEntry(Append(target, n)) :
            n \in IF dir.live THEN EntryNames(tree, target) ELSE dir.names}

\* file.rs 222-244: the item of an entry: symlink_metadata of the entry,
\* then InvalidData for a name that is not Unicode, else the path with the
\* metadata, which is None when the stat failed; get_object (file.rs
\* 154-174) gives the object without metadata the type Unknown
EntryItem(tree, entry) ==
    LET metadata == symlink_metadata(tree, entry.path)
    IN  IF ~IsUnicode(entry.path[Len(entry.path)])
        THEN ErrorItem("InvalidData", PopPart(entry.path))
        ELSE Object(entry.path, IF metadata = "Ok" THEN tree[entry.path].type ELSE "Unknown")

\* file.rs 260-271: the streams of a new lister: that of the prefix's parent
FileListerList(prefix) == {PopPart(prefix)}

\* a lister that goes by the type a symlink points to
DescendsThroughLinks(type) == type \in {"Directory", "Symlink"}

\* file.rs 286-290: the lister adds the stream of an entry that is a directory
Descends(type) == type = "Directory"

Failed(out) == out # <<>> /\ out[Len(out)].err # "None"

\* the lister is being polled: by the caller of list_objects, or by
\* try_collect, which stops at the first error
Polled ==
    /\ fpc \in {"listing", "collect"}
    /\ ~lsEnded
    /\ fpc = "collect" => ~Failed(lsOut)

\* file.rs 197-220: the merger polls a stream that has not started, and
\* build_base awaits read_dir of its directory.  The directory is opened, or
\* the failure of read_dir is the one item of the stream, which the lister
\* returns in the poll that takes it (file.rs 214-219, 295).  The host's
\* failure to read directories meets the directories the lister adds, not
\* the one it starts with.
ListerRead ==
    /\ Polled
    /\ \E path \in lsStreams :
        LET opened == build_base(fs, path, IF path = PopPart(lsPrefix) THEN "none"
                                           ELSE cur.fault)
        IN  /\ lsStreams' = lsStreams \ {path}
            /\ IF opened = "Ok"
               THEN lsOpen' = lsOpen \cup {ReadDir(path)} /\ UNCHANGED lsOut
               ELSE lsOut' = Append(lsOut, ErrorItem(opened, path)) /\ UNCHANGED lsOpen
    /\ UNCHANGED <<fs, fs0, ops, cur, fpc, outcomes, lsPrefix, lsItems, lsEnded, rmQueue,
                   removals, wrvars, rdvars>>
    /\ UNCHANGED notFS

\* file.rs 222-224: the next poll of a stream whose directory is open reads
\* the directory: the names it holds by now
ListerEntries ==
    /\ Polled
    /\ \E dir \in lsOpen :
        /\ lsOpen' = lsOpen \ {dir}
        /\ lsItems' = lsItems \cup DirEntries(fs, dir)
    /\ UNCHANGED <<fs, fs0, ops, cur, fpc, outcomes, lsPrefix, lsStreams, lsOut, lsEnded,
                   rmQueue, removals, wrvars, rdvars>>
    /\ UNCHANGED notFS

\* file.rs 225-244, 281-300: the stream stats the entry it has come to, and
\* FileLister::poll_next takes the item: an entry under the prefix is
\* returned, its stream pushed when it is a directory; any other entry is
\* passed over; an error is returned; and the lister ends when the merger
\* holds no stream any more.
ListerPoll ==
    /\ Polled
    /\ \/ \E i \in lsItems :
            LET item == EntryItem(fs, i)
            IN  /\ lsItems' = lsItems \ {i}
                /\ IF item.err # "None"
                   THEN lsOut' = Append(lsOut, item) /\ UNCHANGED lsStreams
                   ELSE IF StartsWith(item.path, lsPrefix)
                   THEN /\ lsOut' = Append(lsOut, item)
                        /\ lsStreams' = IF Descends(item.type)
                                        THEN lsStreams \cup {item.path} ELSE lsStreams
                   ELSE UNCHANGED <<lsOut, lsStreams>>
                /\ UNCHANGED <<lsEnded, fpc, outcomes>>
       \/ /\ lsItems = {} /\ lsStreams = {} /\ lsOpen = {}
          /\ lsEnded' = TRUE
          /\ IF fpc = "listing"
             THEN fpc' = "idle" /\ outcomes' = Append(outcomes, Ok)
             ELSE UNCHANGED <<fpc, outcomes>>
          /\ UNCHANGED <<lsStreams, lsItems, lsOut>>
    /\ UNCHANGED <<fs, fs0, ops, cur, lsPrefix, lsOpen, rmQueue, removals, wrvars, rdvars>>
    /\ UNCHANGED notFS

StartLister(prefix) ==
    /\ lsPrefix' = prefix
    /\ lsStreams' = FileListerList(prefix)
    /\ lsOpen' = {}
    /\ lsItems' = {}
    /\ lsOut' = <<>>
    /\ lsEnded' = FALSE

\* taking the next operation of the behaviour
Begin(kind) ==
    /\ fpc = "idle"
    /\ ops # <<>>
    /\ Head(ops).kind = kind
    /\ cur' = Head(ops)
    /\ ops' = Tail(ops)

Return(value) ==
    /\ fpc' = "idle"
    /\ outcomes' = Append(outcomes, value)

\* file.rs 453-468: list_objects returns the lister, which has read nothing
ListObjects ==
    /\ Begin("list")
    /\ StartLister(Head(ops).path)
    /\ fpc' = "listing"
    /\ UNCHANGED <<fs, fs0, outcomes, rmQueue, removals, wrvars, rdvars>>
    /\ UNCHANGED notFS

\* file.rs 371-377: delete_directory lists everything beneath path
StartDeleteDirectory(path) ==
    /\ StartLister(PushPart(path, ""))
    /\ fpc' = "collect"

\* file.rs 154-174: the object built from the metadata of a path; without
\* metadata its type is Unknown
get_object(path, metadata) == Object(path, IF metadata = "None" THEN "Unknown" ELSE metadata)

\* an operation that returns an object
Found(object) == [tag |-> "Ok", kind |-> object.type]

\* file.rs 507: Ok(get_object(path, None)) for a stat failure that is not
\* not-found
StatFailure(path, error) == Found(get_object(path, "None"))

\* a get_object that takes any path for the path of an object
RejectedNever(path) == FALSE

\* file.rs 518: path.is_dir_prefix()
Rejected(path) == IsDirPrefix(path)

\* file.rs 513-525: get_object returns InvalidPath for a directory prefix,
\* and otherwise the future that stats the path
GetObject ==
    /\ Begin("get")
    /\ IF Rejected(Head(ops).path)
       THEN Return(Err("InvalidPath"))
       ELSE fpc' = "stat" /\ UNCHANGED outcomes
    /\ UNCHANGED <<fs, fs0, lsvars, rmQueue, removals, wrvars, rdvars>>
    /\ UNCHANGED notFS

\* file.rs 498-511: the future of get_object stats the path
StatObject ==
    /\ fpc = "stat"
    /\ LET target == get_std_path(cur.path)
           metadata == symlink_metadata(fs, target)
       IN  IF metadata = "Ok"
           THEN Return(Found(get_object(cur.path, fs[target].type)))
           ELSE IF metadata = "NotFound"
           THEN Return(Err("NotFound"))
           ELSE Return(StatFailure(cur.path, metadata))
    /\ UNCHANGED <<fs, fs0, ops, cur, lsvars, rmQueue, removals, wrvars, rdvars>>
    /\ UNCHANGED notFS

\* file.rs 550-569: delete_object returns the future of delete, which has
\* made no host call
DeleteObject ==
    /\ Begin("delete")
    /\ fpc' = "delete_stat"
    /\ UNCHANGED <<fs, fs0, outcomes, lsvars, rmQueue, removals, wrvars, rdvars>>
    /\ UNCHANGED notFS

\* file.rs 555-562: delete stats the path; what is no directory is left to
\* remove_file, a directory to delete_directory
DeleteStat ==
    /\ fpc = "delete_stat"
    /\ LET target == get_std_path(cur.path)
           metadata == symlink_metadata(fs, target)
       IN  IF metadata # "Ok"
           THEN /\ Return(Err(get_storage_error(metadata)))
                /\ UNCHANGED lsvars
           ELSE IF ~IsDirectory(fs, target)
           THEN /\ fpc' = "remove"
                /\ UNCHANGED <<outcomes, lsvars>>
           ELSE /\ StartDeleteDirectory(cur.path)
                /\ UNCHANGED outcomes
    /\ UNCHANGED <<fs, fs0, ops, cur, rmQueue, removals, wrvars, rdvars>>
    /\ UNCHANGED notFS

\* file.rs 559: remove_file of the path, whatever is there by now
DeleteRemoveFile ==
    /\ fpc = "remove"
    /\ LET target == get_std_path(cur.path)
           error == remove_file(fs, target)
       IN  IF error = "Ok"
           THEN /\ fs' = RemoveEntry(fs, target)
                /\ removals' = Append(removals, [path |-> target, type |-> fs[target].type])
                /\ Return(Ok)
           ELSE /\ Return(Err(get_storage_error(error)))
                /\ UNCHANGED <<fs, removals>>
    /\ UNCHANGED <<fs0, ops, cur, lsvars, rmQueue, wrvars, rdvars>>
    /\ UNCHANGED notFS

\* file.rs 378-396: the non-directories in listing order, then the
\* directories in listing order, then the directory itself
RemovalOrder(allfiles, path) ==
    LET IsDir(i) == allfiles[i].type = "Directory"
        Pick(keep(_)) == SelectSeq([i \in 1..Len(allfiles) |-> i], keep)
        NonDir(i) == ~IsDir(i)
        Step(idx, dir) == [i \in 1..Len(idx) |-> [path |-> allfiles[idx[i]].path, dir |-> dir]]
    IN  Step(Pick(NonDir), FALSE) \o Step(Pick(IsDir), TRUE) \o <<[path |-> path, dir |-> TRUE]>>

\* a delete_directory that goes on with what was listed before an error
CollectFailedNever(out) == FALSE

\* file.rs 375-377: try_collect(..).await? returns the first error
CollectFailed(out) == Failed(out)

\* file.rs 375-377: try_collect ends with the first error, or with the list
Collected ==
    /\ fpc = "collect"
    /\ Failed(lsOut) \/ lsEnded
    /\ IF CollectFailed(lsOut)
       THEN /\ Return(IF cur.kind = "write"
                      THEN TargetError(lsOut[Len(lsOut)].err)
                      ELSE Err(lsOut[Len(lsOut)].err))
            /\ UNCHANGED rmQueue
       ELSE /\ rmQueue' = RemovalOrder(lsOut, cur.path)
            /\ fpc' = "removing"
            /\ UNCHANGED outcomes
    /\ UNCHANGED <<fs, fs0, ops, cur, lsvars, removals, wrvars, rdvars>>
    /\ UNCHANGED notFS

\* what delete_directory's caller does with its result
AfterRemoval(error) ==
    IF error # "Ok"
    THEN Return(IF cur.kind = "write" THEN TargetError(get_storage_error(error))
                ELSE Err(get_storage_error(error)))
    ELSE IF Len(rmQueue) > 1 THEN UNCHANGED <<fpc, outcomes>>
    ELSE IF cur.kind = "write" THEN fpc' = "create" /\ UNCHANGED outcomes
    ELSE Return(Ok)

Removal(isDir, error) ==
    /\ fpc = "removing"
    /\ rmQueue # <<>>
    /\ Head(rmQueue).dir = isDir
    /\ LET target == get_std_path(Head(rmQueue).path)
       IN  /\ IF error = "Ok"
              THEN /\ fs' = RemoveEntry(fs, target)
                   /\ removals' = Append(removals, [path |-> target, type |-> fs[target].type])
                   /\ rmQueue' = Tail(rmQueue)
              ELSE UNCHANGED <<fs, removals, rmQueue>>
           /\ AfterRemoval(error)
    /\ UNCHANGED <<fs0, ops, cur, lsvars, wrvars, rdvars>>
    /\ UNCHANGED notFS

\* file.rs 385-388
RemoveFile ==
    fpc = "removing" /\ rmQueue # <<>>
        /\ Removal(FALSE, remove_file(fs, get_std_path(Head(rmQueue).path)))

\* file.rs 390-396
RemoveDir ==
    fpc = "removing" /\ rmQueue # <<>>
        /\ Removal(TRUE, remove_dir(fs, get_std_path(Head(rmQueue).path)))

(***************************************************************************)
(* write_file_from_stream   (file.rs 571-665)                              *)
(* The source stream is the sequence of the lengths of its chunks; its     *)
(* bytes are numbered 1, 2, ... in the order the stream delivers them.     *)
(* The file that File::create returns is written through its handle: it    *)
(* is the file at the path for as long as nothing else removes or replaces *)
(* what the path names.                                                    *)
(***************************************************************************)
\* the tokio_fs::File of the write: no file before File::create, then the
\* file it created, its content, and whether the path still names it
NoWriter == [type |-> "None", linked |-> FALSE, data |-> <<>>]
Writer(data) == [type |-> "File", linked |-> TRUE, data |-> data]

\* file.rs 657-662: path.try_into().  The path is an ObjectPath, or a string
\* that ObjectPath refuses for its drive prefix.
TryInto(op) == IF op.fault = "path" THEN "InvalidPath" ELSE "Ok"

\* file.rs 657-664: write_file_from_stream converts the path, which may
\* fail, and returns the future of write, which has made no host call
WriteFileFromStream ==
    /\ Begin("write")
    /\ src' = Head(ops).chunks
    /\ sent' = 0
    /\ chunk' = <<>>
    /\ wrFile' = NoWriter
    /\ IF TryInto(Head(ops)) # "Ok"
       THEN Return(TargetError(TryInto(Head(ops))))
       ELSE fpc' = "write_stat" /\ UNCHANGED outcomes
    /\ UNCHANGED <<fs, fs0, lsvars, rmQueue, removals, rdvars>>
    /\ UNCHANGED notFS

\* file.rs 585-606: write stats the path; what is there is left to
\* delete_directory or remove_file, and a path with nothing to File::create
WriteStat ==
    /\ fpc = "write_stat"
    /\ LET target == get_std_path(cur.path)
           metadata == symlink_metadata(fs, target)
       IN  IF metadata = "NotFound"
           THEN /\ fpc' = "create"
                /\ UNCHANGED <<outcomes, lsvars>>
           ELSE IF metadata # "Ok"
           THEN /\ Return(TargetError(get_storage_error(metadata)))
                /\ UNCHANGED lsvars
           ELSE IF IsDirectory(fs, target)
           THEN /\ StartDeleteDirectory(cur.path)
                /\ UNCHANGED outcomes
           ELSE /\ fpc' = "unlink"
                /\ UNCHANGED <<outcomes, lsvars>>
    /\ UNCHANGED <<fs, fs0, ops, cur, rmQueue, removals, wrvars, rdvars>>
    /\ UNCHANGED notFS

\* file.rs 596-598: remove_file of the path, whatever is there by now
WriteRemoveFile ==
    /\ fpc = "unlink"
    /\ LET target == get_std_path(cur.path)
           error == remove_file(fs, target)
       IN  IF error = "Ok"
           THEN /\ fs' = RemoveEntry(fs, target)
                /\ removals' = Append(removals, [path |-> target, type |-> fs[target].type])
                /\ fpc' = "create"
                /\ UNCHANGED outcomes
           ELSE /\ Return(TargetError(get_storage_error(error)))
                /\ UNCHANGED <<fs, removals>>
    /\ UNCHANGED <<fs0, ops, cur, lsvars, rmQueue, wrvars, rdvars>>
    /\ UNCHANGED notFS

\* file.rs 608-610: File::create of the path, whatever is there by now
CreateFile ==
    /\ fpc = "create"
    /\ LET target == get_std_path(cur.path)
           created == FileCreate(fs, target)
       IN  IF created = "Ok"
           THEN /\ fs' = Created(fs, target)
                /\ wrFile' = Writer(<<>>)
                /\ fpc' = "writing"
                /\ UNCHANGED outcomes
           ELSE /\ Return(TargetError(get_storage_error(created)))
                /\ UNCHANGED <<fs, wrFile>>
    /\ UNCHANGED <<fs0, ops, cur, lsvars, rmQueue, removals, src, sent, chunk, rdvars>>
    /\ UNCHANGED notFS

\* what the caller's source stream yields next: a chunk, given by its
\* length, or an error item, given by a negative number
IsSourceError(item) == item < 0

\* a source error reported as a failure of the target
SourceFailureAsTarget(error) == TargetError(error)

\* file.rs 617: result.map_err(TransferError::SourceError)
SourceFailure(error) == SourceError(error)

\* file.rs 615-617, 629-632: stream.next().await.  The source has ended, or
\* yields an error, which ends the call, or yields the next chunk.
NextChunk ==
    /\ fpc = "writing"
    /\ IF src = <<>>
       THEN /\ fpc' = "flush"
            /\ UNCHANGED <<src, sent, chunk, outcomes>>
       ELSE IF IsSourceError(Head(src))
       THEN /\ Return(SourceFailure("OtherError"))
            /\ src' = Tail(src)
            /\ UNCHANGED <<sent, chunk>>
       ELSE /\ chunk' = [i \in 1..Head(src) |-> sent + i]
            /\ sent' = sent + Head(src)
            /\ src' = Tail(src)
            /\ fpc' = "write_all"
            /\ UNCHANGED outcomes
    /\ UNCHANGED <<fs, fs0, ops, cur, lsvars, rmQueue, removals, wrFile, rdvars>>
    /\ UNCHANGED notFS

\* a write that puts the chunk in front of what the file holds
WrittenInFront(data, bytes) == bytes \o data

\* a write that replaces what the file holds by the chunk
WrittenOver(data, bytes) == bytes

\* file.rs 619: file.write_all(&data) adds the bytes at the end of the file
Written(data, bytes) == data \o bytes

\* the tree when the open file holds the data: the path shows it while it
\* names the file
Stored(tree, target, file, data) ==
    IF file.linked THEN [tree EXCEPT ![target].data = data] ELSE tree

\* file.rs 619-628: write_all to the file that File::create returned.  The
\* chunk is written completely, or the write fails after a part of it,
\* which ends the call.
WriteChunk ==
    /\ fpc = "write_all"
    /\ LET target == get_std_path(cur.path)
       IN  \/ /\ wrFile' = [wrFile EXCEPT !.data = Written(wrFile.data, chunk)]
              /\ fs' = Stored(fs, target, wrFile, Written(wrFile.data, chunk))
              /\ chunk' = <<>>
              /\ fpc' = "writing"
              /\ UNCHANGED outcomes
           \/ /\ cur.fault = "write"
              /\ \E k \in 0..(Len(chunk) - 1) :
                    LET data == Written(wrFile.data, SubSeq(chunk, 1, k))
                    IN  /\ wrFile' = [wrFile EXCEPT !.data = data]
                        /\ fs' = Stored(fs, target, wrFile, data)
              /\ Return(TargetError(get_storage_error("Other")))
              /\ UNCHANGED chunk
    /\ UNCHANGED <<fs0, ops, cur, src, sent, lsvars, rmQueue, removals, rdvars>>
    /\ UNCHANGED notFS

\* file.rs 635-643: file.flush().await, whose failure ends the call
FileFlush ==
    /\ fpc = "flush"
    /\ IF cur.fault = "flush"
       THEN Return(TargetError(get_storage_error("Other")))
       ELSE fpc' = "shutdown" /\ UNCHANGED outcomes
    /\ UNCHANGED <<fs, fs0, ops, cur, lsvars, rmQueue, removals, wrvars, rdvars>>
    /\ UNCHANGED notFS

\* file.rs 644-654: file.shutdown().await, whose failure ends the call, and
\* Ok(())
FileShutdown ==
    /\ fpc = "shutdown"
    /\ IF cur.fault = "shutdown"
       THEN Return(TargetError(get_storage_error("Other")))
       ELSE Return(Ok)
    /\ UNCHANGED <<fs, fs0, ops, cur, lsvars, rmQueue, removals, wrvars, rdvars>>
    /\ UNCHANGED notFS

(***************************************************************************)
(* get_file_stream and ReadStream   (file.rs 303-368, 528-548)             *)
(***************************************************************************)
\* an open that truncates the file, as File::create does
FileOpenedTruncating(tree, target) ==
    IF target \in DOMAIN tree /\ tree[target].type = "File"
    THEN [tree EXCEPT ![target].data = <<>>] ELSE tree

\* file.rs 104-116, 540: File::open opens the file for reading and leaves
\* the tree as it is
FileOpened(tree, target) == tree

\* file.rs 528-548: get_file_stream returns the future of read, which has
\* made no host call
GetFileStream ==
    /\ Begin("read")
    /\ fpc' = "read_stat"
    /\ UNCHANGED <<fs, fs0, outcomes, lsvars, rmQueue, removals, wrvars, rdvars>>
    /\ UNCHANGED notFS

\* file.rs 533-538: read stats the path; only a regular file is opened
ReadStat ==
    /\ fpc = "read_stat"
    /\ LET target == get_std_path(cur.path)
           metadata == symlink_metadata(fs, target)
       IN  IF metadata # "Ok"
           THEN Return(Err(get_storage_error(metadata)))
           ELSE IF target = <<>> \/ fs[target].type # "File"
           THEN Return(Err("NotFound"))
           ELSE fpc' = "open" /\ UNCHANGED outcomes
    /\ UNCHANGED <<fs, fs0, ops, cur, lsvars, rmQueue, removals, wrvars, rdvars>>
    /\ UNCHANGED notFS

\* file.rs 540-541: File::open of the path, whatever is there by now, and
\* the ReadStream built over the open file (file.rs 316-335)
OpenFile ==
    /\ fpc = "open"
    /\ LET target == get_std_path(cur.path)
           opened == FileOpen(fs, target)
       IN  IF opened = "Ok"
           THEN /\ fs' = FileOpened(fs, target)
                /\ rdFile' = FileHandle(fs, target)
                /\ buffer' = INITIAL_BUFFER_SIZE
                /\ rdPos' = 0
                /\ rdData' = <<>>
                /\ rdErrors' = <<>>
                /\ fpc' = "reading"
                /\ UNCHANGED outcomes
           ELSE /\ Return(Err(get_storage_error(opened)))
                /\ UNCHANGED <<fs, rdvars>>
    /\ UNCHANGED <<fs0, ops, cur, lsvars, rmQueue, removals, wrvars>>
    /\ UNCHANGED notFS

Min(a, b) == IF a < b THEN a ELSE b

\* a stream that keeps its first buffer
NeedsNewBufferNever(remaining) == FALSE

\* file.rs 343: what is left of the buffer is too small for the next read
NeedsNewBuffer(remaining) == remaining < MIN_BUFFER_SIZE

\* the io::ErrorKind of a read from the open file: a directory cannot be
\* read
FileRead(file) == IF file.type = "Directory" THEN "IsADirectory" ELSE "Ok"

\* file.rs 337-356: one poll of the stream whose read is ready.  The read
\* fills between one byte and the whole buffer, and gives 0 at the end of
\* the file or into an empty buffer; a read that fails is yielded as an
\* error item and the stream goes on (file.rs 354).
ReadPoll ==
    /\ fpc = "reading"
    /\ LET most == Min(buffer, Len(rdFile.data) - rdPos)
       IN  IF FileRead(rdFile) # "Ok"
           THEN /\ Len(rdErrors) < MaxReadErrors
                /\ rdErrors' = Append(rdErrors, get_storage_error(FileRead(rdFile)))
                /\ UNCHANGED <<buffer, rdPos, rdData, fpc, outcomes>>
           ELSE IF most = 0
           THEN /\ Return(Ok)
                /\ UNCHANGED <<buffer, rdPos, rdData, rdErrors>>
           ELSE \E size \in 1..most :
                /\ rdData' = rdData \o SubSeq(rdFile.data, rdPos + 1, rdPos + size)
                /\ rdPos' = rdPos + size
                /\ buffer' = IF NeedsNewBuffer(buffer - size)
                             THEN INITIAL_BUFFER_SIZE
                             ELSE buffer - size
                /\ UNCHANGED <<fpc, outcomes, rdErrors>>
    /\ UNCHANGED <<rdFile, fs, fs0, ops, cur, lsvars, rmQueue, removals, wrvars>>
    /\ UNCHANGED notFS

(***************************************************************************)
(* Another task of the executor.  The future of an operation is pending    *)
(* before each of its host calls (file.rs 41-131) and between the polls of *)
(* the stream it returned, and the executor runs its other tasks           *)
(* meanwhile.  Here one other task acts once, at any of these points, on   *)
(* the entry at the path of the operation: it removes the entry with all   *)
(* that is in it, puts an empty directory in its place, or puts in its     *)
(* place a symlink into a directory that does not exist.                   *)
(***************************************************************************)
OtherTasks == {"rm", "mkdir", "ln"}

Disturbed(tree, target, task) ==
    LET without == RemoveEntry(tree, target)
    IN  IF task = "rm" THEN without
        ELSE IF task = "mkdir" THEN AddEntry(without, target, Entry("Directory"))
        ELSE AddEntry(without, target, Link("Nowhere"))

\* the other task can do its work: there is an entry to remove, or a
\* directory to put the new entry in
CanDisturb(tree, target, task) ==
    /\ target # <<>>
    /\ IF task = "rm" THEN target \in DOMAIN tree
       ELSE ResolvesToDirectory(tree, PopPart(target))

\* the path leads through a symlink at or beneath the entry, so what it
\* names lies outside the entry
ThroughLink(tree, entry, target) ==
    \E k \in Len(entry)..Len(target) :
        LET q == SubSeq(target, 1, k)
        IN  q \in DOMAIN tree /\ tree[q].type = "Symlink"

\* an open directory after the entry was removed or replaced: a directory
\* that lay in the entry has gone with all it held, and one that a symlink
\* led to keeps its entries, which the path leads to no longer
Detached(tree, entry, dir) ==
    LET target == get_std_path(dir.path)
    IN  IF dir.live /\ IsPrefix(entry, target)
        THEN [dir EXCEPT !.live = FALSE,
                         !.names = IF ThroughLink(tree, entry, target)
                                   THEN EntryNames(tree, target) ELSE {}]
        ELSE dir

OtherTask ==
    /\ fpc # "idle"
    /\ cur.other \in OtherTasks
    /\ LET target == get_std_path(cur.path)
       IN  /\ CanDisturb(fs, target, cur.other)
           /\ fs' = Disturbed(fs, target, cur.other)
           /\ lsOpen' = {Detached(fs, target, dir) : dir \in lsOpen}
    /\ wrFile' = [wrFile EXCEPT !.linked = FALSE]
    /\ cur' = [cur EXCEPT !.other = "done"]
    /\ UNCHANGED <<fs0, ops, fpc, outcomes, lsPrefix, lsStreams, lsItems, lsOut, lsEnded,
                   rmQueue, removals, src, sent, chunk, rdvars>>
    /\ UNCHANGED notFS

NextFS ==
    \/ ListObjects
    \/ GetObject
    \/ StatObject
    \/ DeleteObject
    \/ DeleteStat
    \/ DeleteRemoveFile
    \/ WriteFileFromStream
    \/ WriteStat
    \/ WriteRemoveFile
    \/ GetFileStream
    \/ ReadStat
    \/ OpenFile
    \/ OtherTask
    \/ ListerRead
    \/ ListerEntries
    \/ ListerPoll
    \/ Collected
    \/ RemoveFile
    \/ RemoveDir
    \/ CreateFile
    \/ NextChunk
    \/ WriteChunk
    \/ FileFlush
    \/ FileShutdown
    \/ ReadPoll

NextRW ==
    \/ WriteFileFromStream
    \/ WriteStat
    \/ WriteRemoveFile
    \/ ListerRead
    \/ ListerEntries
    \/ ListerPoll
    \/ Collected
    \/ RemoveFile
    \/ RemoveDir
    \/ CreateFile
    \/ NextChunk
    \/ WriteChunk
    \/ FileFlush
    \/ FileShutdown
    \/ GetFileStream
    \/ ReadStat
    \/ OpenFile
    \/ ReadPoll

\* the file backend connected to a tree, with the operations to run
FSNew(tree, todo) ==
    /\ fs = tree
    /\ fs0 = tree
    /\ ops = todo
    /\ cur = [kind |-> "none", path |-> <<>>, chunks |-> <<>>, fault |-> "none", other |-> "none"]
    /\ fpc = "idle"
    /\ outcomes = <<>>
    /\ lsPrefix = <<>>
    /\ lsStreams = {}
    /\ lsOpen = {}
    /\ lsItems = {}
    /\ lsOut = <<>>
    /\ lsEnded = FALSE
    /\ rmQueue = <<>>
    /\ removals = <<>>
    /\ src = <<>>
    /\ sent = 0
    /\ chunk = <<>>
    /\ wrFile = NoWriter
    /\ buffer = 0
    /\ rdFile = NoFile
    /\ rdPos = 0
    /\ rdData = <<>>
    /\ rdErrors = <<>>

\* an operation: its path, the chunks of its source, what fails, and what
\* another task does meanwhile
Op(kind, path, chunks, fault) ==
    [kind |-> kind, path |-> path, chunks |-> chunks, fault |-> fault, other |-> "none"]

\* the operation with another task at work on its path
Raced(kind, path, chunks, other) == [Op(kind, path, chunks, "none") EXCEPT !.other = other]

\* the paths an operation is given: those of the entries, those one part
\* below an entry or the base, and those two parts below the base
Below(paths) == UNION {{Append(q, n) : n \in Names} : q \in paths}
Targets(tree) == DOMAIN tree \cup Below(DOMAIN tree \cup {<<>>}) \cup Below(Below({<<>>}))

\* the prefixes a listing is given: the same, the base, and each as a
\* directory prefix
Prefixes(tree) ==
    LET plain == Targets(tree) \cup {<<>>}
    IN  plain \cup {Append(q, "") : q \in plain \ {<<>>}}

\* chunkings of the data written by the operations on a tree
SmallChunks == {<<>>, <<2>>, <<1, 0, 1>>}

\* the same, and source streams that yield an error item
SmallSources == SmallChunks \cup {<<-1>>, <<1, -1, 1>>, <<1, 2, -1>>}

\* what the host fails during a delete: nothing, or the reading of the
\* directories beneath the one deleted
DeleteFaults == {"none", "read_dir"}

\* the writes of a behaviour, each a source and what fails: every source on
\* a host that fails nothing; a failing write, flush or shutdown of the
\* file with a source that yields data and one that yields an error after
\* data; a failing read_dir of the directories beneath the directory the
\* write replaces, which comes before the source is polled, with one
\* source; and a path that does not convert, with one source
Writes ==
    (SmallSources \X {"none"})
        \cup ({<<2>>, <<1, -1, 1>>} \X {"write", "flush", "shutdown"})
        \cup {<<(<<2>>), "read_dir">>, <<(<<2>>), "path">>}

\* chunkings of the data of a round trip
Chunkings == UNION {[1..n -> 0..MaxChunkLen] : n \in 0..MaxChunks}

\* the operations another task is at work beside: on the trees of at most
\* MaxRacedEntries entries, every operation on every path beneath the base,
\* a write with a source of three chunks and with one that yields an error
RacedSources == {<<1, 0, 1>>, <<1, -1, 1>>}

RacedOps(tree) ==
    IF Cardinality(DOMAIN tree) > MaxRacedEntries THEN {}
    ELSE {<<Raced(k, p, <<>>, t)>> :
                k \in {"list", "get"}, p \in Prefixes(tree) \ {<<>>}, t \in OtherTasks}
            \cup {<<Raced(k, p, <<>>, t)>> :
                    k \in {"read", "delete"}, p \in Targets(tree), t \in OtherTasks}
            \cup {<<Raced("write", p, c, t)>> :
                    p \in Targets(tree), c \in RacedSources, t \in OtherTasks}

FSOps(tree) ==
    {<<Op("list", p, <<>>, "none")>> : p \in Prefixes(tree)}
        \cup {<<Op("get", p, <<>>, "none")>> : p \in Prefixes(tree)}
        \cup {<<Op("read", p, <<>>, "none")>> : p \in Targets(tree)}
        \cup {<<Op("delete", p, <<>>, f)>> : p \in Targets(tree), f \in DeleteFaults}
        \cup {<<Op("write", p, w[1], w[2])>> : p \in Targets(tree), w \in Writes}
        \cup RacedOps(tree)

\* a round trip on the path a: the path is free, holds a file, or holds a
\* directory with a file in it
RoundTripTrees ==
    {EmptyTree,
     AddEntry(EmptyTree, <<"a">>, Entry("File")),
     AddEntry(AddEntry(EmptyTree, <<"a">>, Entry("Directory")), <<"a", "b">>, Entry("File"))}

RoundTrip(chunks) ==
    <<Op("write", <<"a">>, chunks, "none"), Op("read", <<"a">>, <<>>, "none")>>

(***************************************************************************)
(* ReaderStream   (utils.rs 33-110)   and ReadStream   (file.rs 303-368)   *)
(* over any source.  The source holds rsLen bytes, numbered in the order   *)
(* it delivers them; a read gives at least one byte while the source has   *)
(* bytes left and the buffer has room, and may fail with an I/O error.     *)
(***************************************************************************)
\* io::ErrorKind of a failed read
ReadErrors == {"NotFound", "Interrupted"}

\* utils.rs 65-76, file.rs 322-332
ReaderNew(kind, initial, minimum, len) ==
    /\ rsKind = kind
    /\ rsInitial = initial
    /\ rsMinimum = minimum
    /\ rsBuffer = initial
    /\ rsLen = len
    /\ rsPos = 0
    /\ rsErrors = 0
    /\ rsZero = FALSE
    /\ rsItems = <<>>
    /\ rsEnded = FALSE

\* what poll_read may give when it is ready: the number of bytes read
ReadSizes(buf, left) == IF buf = 0 \/ left = 0 THEN {0} ELSE 1..Min(buf, left)

\* a stream that takes no read for the end of the source
EndOfStreamNever(size) == FALSE

\* utils.rs 81, file.rs 339:  Poll::Ready(Ok(0)) => Poll::Ready(None)
EndOfStream(size) == size = 0

\* utils.rs 83, file.rs 341:  self.buffer.split_to(size), the bytes just read
SplitTo(pos, size) == [i \in 1..size |-> pos + i]

\* a stream that keeps the remainder of its buffer whatever its size
BufferAfterReadKept(left, initial, minimum) == left

\* utils.rs 85-91, file.rs 343-349: the buffer the next read is given
BufferAfterRead(left, initial, minimum) == IF left < minimum THEN initial ELSE left

\* utils.rs 96: the error is passed on; file.rs 354: get_storage_error
ReadError(kind, error) == IF kind = "ReadStream" THEN get_storage_error(error) ELSE error

Chunk(data) == [err |-> "None", data |-> data]
ReadFailure(error) == [err |-> error, data |-> <<>>]

\* utils.rs 79-98, file.rs 337-356: one poll_next whose poll_read is ready
\* (a Pending read changes nothing).  The stream keeps no note of an error
\* or of its end: every later poll reads again.
ReaderPoll ==
    /\ ~rsEnded
    /\ \/ \E size \in ReadSizes(rsBuffer, rsLen - rsPos) :
            /\ rsZero' = (rsZero \/ size = 0)
            /\ IF EndOfStream(size)
               THEN /\ rsEnded' = TRUE
                    /\ UNCHANGED <<rsBuffer, rsPos, rsItems, rsErrors>>
               ELSE /\ rsItems' = Append(rsItems, Chunk(SplitTo(rsPos, size)))
                    /\ rsPos' = rsPos + size
                    /\ rsBuffer' = BufferAfterRead(rsBuffer - size, rsInitial, rsMinimum)
                    /\ UNCHANGED <<rsEnded, rsErrors>>
       \/ /\ rsErrors < MaxReadErrors
          /\ \E e \in ReadErrors :
                rsItems' = Append(rsItems, ReadFailure(ReadError(rsKind, e)))
          /\ rsErrors' = rsErrors + 1
          /\ UNCHANGED <<rsBuffer, rsPos, rsEnded, rsZero>>
    /\ UNCHANGED <<rsKind, rsInitial, rsMinimum, rsLen>>
    /\ UNCHANGED notReader

NextReader == ReaderPoll

\* any ReaderStream, and the ReadStream of the file backend
ReaderConfigs ==
    {<<"ReaderStream", i, m>> : i \in 0..MaxBuffer, m \in 0..MaxBuffer}
        \cup {<<"ReadStream", INITIAL_BUFFER_SIZE, MIN_BUFFER_SIZE>>}

(***************************************************************************)
(* One operation of a backend and the response to its API request          *)
(* (b2.rs 64-86, 155-184, 461-629; file.rs 470-491).                       *)
(* A response is a transport failure, or an HTTP status with a body; the   *)
(* body can be read or not, parses as what the status calls for or not,    *)
(* and an error body carries a status and a code.                          *)
(***************************************************************************)
Methods == {"b2_authorize_account", "b2_list_buckets", "b2_list_file_names"}

ErrorStatuses == {400, 401, 503}
HttpStatuses == {200} \cup ErrorStatuses

Codes == {"bad_request", "invalid_bucket_id", "out_of_range", "unauthorized", "bad_auth_token",
          "expired_auth_token", "unsupported", "service_unavailable"}

TransportErrors == {"parse", "user", "canceled", "closed", "connect", "incomplete", "timeout"}

\* the end of an operation that panics
Abort == "Abort"

\* b2.rs 70-86
FromHyperError(error) ==
    IF error \in {"parse", "user"} THEN "InvalidData"
    ELSE IF error = "canceled" THEN "Cancelled"
    ELSE IF error = "closed" THEN "ConnectionClosed"
    ELSE IF error = "connect" THEN "ConnectionFailed"
    ELSE IF error = "incomplete" THEN "ConnectionClosed"
    ELSE "InvalidData"

\* the message field of an error body
Messages == {"down", "busy"}

ErrorResponse(status, code, message) == [status |-> status, code |-> code, message |-> message]

NoBody == ErrorResponse(0, "", "")

Response(transport, status, readable, parses, error) ==
    [transport |-> transport, status |-> status, readable |-> readable, parses |-> parses,
     error |-> error]

ApiResponses ==
    {Response(t, 0, FALSE, FALSE, NoBody) : t \in TransportErrors}
        \cup {Response("none", h, r, FALSE, NoBody) : h \in HttpStatuses, r \in BOOLEAN}
        \cup {Response("none", 200, TRUE, TRUE, NoBody)}
        \cup {Response("none", h, TRUE, TRUE, ErrorResponse(e, c, m)) :
                h \in ErrorStatuses, e \in ErrorStatuses, c \in Codes, m \in Messages}

\* a StorageError: its kind, and its message as the fixed text and the
\* parts of the response it carries
StorageError(kind, text, status, code, message) ==
    [kind |-> kind, text |-> text, status |-> status, code |-> code, message |-> message]

\* a result or an error without a message
Plain(kind) == StorageError(kind, "", 0, "", "")

\* an error whose message is a fixed text
Fixed(kind, text) == StorageError(kind, text, 0, "", "")

\* an error whose message is the message of the response
Carrying(kind, error) == StorageError(kind, "", 0, "", error.message)

\* b2.rs 621-627: "Unknown B2 API failure {status}: {code}, {message}"
other_error(error) ==
    StorageError("OtherError", "Unknown B2 API failure", error.status, error.code, error.message)

\* a classification that never takes the method into account
IsAuthorizeNever(method) == FALSE

\* b2.rs 602: the arm for the authorize method
IsAuthorize(method) == method = "b2_authorize_account"

\* b2.rs 590-629
generate_error(method, parses, error) ==
    IF ~parses THEN Fixed("InvalidData", "Unable to parse error response")
    ELSE IF IsAuthorize(method) /\ error.status = 401 /\ error.code = "bad_auth_token"
    THEN Fixed("AccessDenied", "The application key id or key were not recognized.")
    ELSE IF error.status = 400 /\ error.code = "bad_request" THEN Carrying("InternalError", error)
    ELSE IF error.status = 400 /\ error.code = "invalid_bucket_id" THEN Plain("NotFound")
    ELSE IF error.status = 400 /\ error.code = "out_of_range" THEN Carrying("InternalError", error)
    ELSE IF error.status = 401 /\ error.code = "unauthorized"
    THEN Fixed("AccessDenied", "The application key id or key were not recognized.")
    ELSE IF error.status = 401 /\ error.code = "bad_auth_token"
    THEN Fixed("AccessExpired", "The authentication token is invalid.")
    ELSE IF error.status = 401 /\ error.code = "expired_auth_token"
    THEN Fixed("AccessExpired", "The authentication token has expired.")
    ELSE IF error.status = 401 /\ error.code = "unsupported" THEN Carrying("InternalError", error)
    ELSE IF error.status = 503 /\ error.code = "bad_request"
    THEN Carrying("ConnectionFailed", error)
    ELSE other_error(error)

\* http::StatusCode::is_success
IsSuccess(status) == status \in 200..299

\* a body that does not parse taken for an empty answer
from_str_lenient(parses, method) == Plain("Ok")

\* b2.rs 174-180: from_str(&data) of a success response
from_str(parses, method) ==
    IF parses THEN Plain("Ok") ELSE Fixed("InvalidData", "Unable to parse response")

\* b2.rs 155-184: B2Client::request.  read_to_string(..).unwrap() panics on
\* a body that cannot be read.
request(method, response) ==
    IF response.transport # "none" THEN Plain(FromHyperError(response.transport))
    ELSE IF ~response.readable THEN Plain(Abort)
    ELSE IF IsSuccess(response.status)
    THEN from_str(response.parses, method)
    ELSE generate_error(method, response.parses, response.error)

\* b2.rs 461-588: what an operation of the B2 backend does before any
\* request; "request" when it goes on to call the API
B2Operation(name, path) ==
    IF name = "list_objects" THEN "request"
    ELSE IF name = "get_object" /\ IsDirPrefix(path) THEN "InvalidPath"
    ELSE Abort

\* file.rs 470-491: list_directory of the file backend
FileOperation(name, path) == Abort

\* no response: the request has not been answered
NoResponse == Response("unanswered", 0, FALSE, FALSE, NoBody)

\* an operation of a backend whose client has an authorization cached or
\* has none
OpsNew(backend, name, path, cached) ==
    /\ opBackend = backend
    /\ opName = name
    /\ opPath = path
    /\ opSession = cached
    /\ opCall = "None"
    /\ opTries = 0
    /\ opMethod = "None"
    /\ opResponse = NoResponse
    /\ opPc = "called"
    /\ opReturned = "None"
    /\ opResult = "None"
    /\ opError = Plain("None")

\* the operation ends: the future of list returns the error (b2.rs 480,
\* 494), or, when it has returned its stream, the stream ends, after the
\* error item if there is one (b2.rs 325-328, 336-337)
Finish(kind) ==
    /\ opPc' = "done"
    /\ opResult' = kind
    /\ opReturned' = IF opReturned = "None" THEN kind ELSE opReturned

\* B2Client::request sends a request (b2.rs 165)
SendRequest(method, next) ==
    /\ opMethod' = method
    /\ opResponse' = NoResponse
    /\ opError' = Plain("None")
    /\ opPc' = next

\* the operation is called and runs up to its first call of the client:
\* list of list_objects asks for the account id (b2.rs 480)
Operation ==
    /\ opPc = "called"
    /\ LET outcome == IF opBackend = "B2" THEN B2Operation(opName, opPath)
                      ELSE FileOperation(opName, opPath)
       IN  IF outcome = "request"
           THEN /\ opPc' = "session"
                /\ opCall' = "account_id"
                /\ UNCHANGED <<opResult, opReturned>>
           ELSE /\ opPc' = "done"
                /\ opResult' = outcome
                /\ opReturned' = outcome
                /\ UNCHANGED opCall
    /\ UNCHANGED <<opBackend, opName, opPath, opSession, opTries, opMethod, opResponse, opError>>
    /\ UNCHANGED notOps

\* b2.rs 261-270: session() of account_id (b2.rs 152) or of b2_api_call
\* (b2.rs 210).  A cached session is returned: account_id returns its
\* account id and list goes on to b2_list_buckets (b2.rs 492-494), and
\* b2_api_call sends its request (b2.rs 214-222).  With no session cached
\* the handshake is sent.
OpSession ==
    /\ opPc = "session"
    /\ IF ~opSession
       THEN /\ SendRequest("b2_authorize_account", "authorizing")
            /\ UNCHANGED <<opCall, opTries>>
       ELSE IF opCall = "account_id"
       THEN /\ opCall' = "b2_list_buckets"
            /\ opTries' = 0
            /\ UNCHANGED <<opPc, opMethod, opResponse, opError>>
       ELSE /\ SendRequest(opCall, "request")
            /\ UNCHANGED <<opCall, opTries>>
    /\ UNCHANGED <<opBackend, opName, opPath, opSession, opReturned, opResult>>
    /\ UNCHANGED notOps

\* b2.rs 266-268: the handshake is answered.  Its failure is the failure of
\* the call that asked for the session (b2.rs 152, 210: session().await?),
\* which is not tried again; its success is cached and the call goes on.
OpAuthorize ==
    /\ opPc = "authorizing"
    /\ \E response \in ApiResponses :
        LET answer == request(opMethod, response)
        IN  IF answer.kind # "Ok"
            THEN /\ opResponse' = response
                 /\ opError' = answer
                 /\ Finish(answer.kind)
                 /\ UNCHANGED <<opSession, opCall, opTries, opMethod>>
            ELSE /\ opSession' = TRUE
                 /\ IF opCall = "account_id"
                    THEN /\ opCall' = "b2_list_buckets"
                         /\ opTries' = 0
                         /\ opPc' = "session"
                         /\ opResponse' = response
                         /\ opError' = answer
                         /\ UNCHANGED opMethod
                    ELSE /\ SendRequest(opCall, "request")
                         /\ UNCHANGED <<opCall, opTries>>
                 /\ UNCHANGED <<opReturned, opResult>>
    /\ UNCHANGED <<opBackend, opName, opPath>>
    /\ UNCHANGED notOps

\* b2.rs 222-235: the request of b2_api_call is answered.  The answer of
\* b2_list_buckets makes list return its stream (b2.rs 494-516), the answer
\* of b2_list_file_names ends the stream with its last page; an
\* AccessExpired goes on to reset_session; any other failure is the failure
\* of the call.
Request ==
    /\ opPc = "request"
    /\ \E response \in ApiResponses :
        LET answer == request(opMethod, response)
        IN  /\ opResponse' = response
            /\ opError' = answer
            /\ IF answer.kind = "Ok"
               THEN IF opCall = "b2_list_buckets"
                    THEN opPc' = "stream" /\ opReturned' = "Ok" /\ UNCHANGED opResult
                    ELSE Finish("Ok")
               ELSE IF IsAccessExpired(answer.kind)
               THEN opPc' = "reset" /\ UNCHANGED <<opReturned, opResult>>
               ELSE Finish(answer.kind)
    /\ UNCHANGED <<opBackend, opName, opPath, opSession, opCall, opTries, opMethod>>
    /\ UNCHANGED notOps

\* b2.rs 226-233: reset_session drops the session the request was made
\* with, and the call is tried again unless it has been tried API_RETRIES
\* times, when it fails with the AccessExpired
OpReset ==
    /\ opPc = "reset"
    /\ opSession' = FALSE
    /\ opTries' = opTries + 1
    /\ IF RetryAllowed(opTries + 1)
       THEN opPc' = "session" /\ UNCHANGED <<opReturned, opResult>>
       ELSE Finish(opError.kind)
    /\ UNCHANGED <<opBackend, opName, opPath, opCall, opMethod, opResponse, opError>>
    /\ UNCHANGED notOps

\* the stream list_objects returned is polled (b2.rs 303-341): with no
\* bucket to list it ends, and else the ListFileNamesStream of a bucket
\* polls its b2_list_file_names (b2.rs 307-308)
OpPoll ==
    /\ opPc = "stream"
    /\ \/ /\ Finish("Ok")
          /\ UNCHANGED <<opCall, opTries>>
       \/ /\ opCall' = "b2_list_file_names"
          /\ opTries' = 0
          /\ opPc' = "session"
          /\ UNCHANGED <<opReturned, opResult>>
    /\ UNCHANGED <<opBackend, opName, opPath, opSession, opMethod, opResponse, opError>>
    /\ UNCHANGED notOps

NextOps ==
    \/ Operation
    \/ OpSession
    \/ OpAuthorize
    \/ Request
    \/ OpReset
    \/ OpPoll

\* the operations of the B2 backend, and the one operation of the file
\* backend that is not part of the file-system model above
Operations ==
    ({"B2"} \X {"list_objects", "list_directory", "get_object", "get_file_stream",
                "delete_object", "write_file_from_stream"})
        \cup {<<"File", "list_directory">>}

OpPaths == {<<>>, <<"a">>, <<"a", "">>, <<"a", "b">>}

(***************************************************************************)
(* Fs: the validation of the path before the backend is invoked            *)
(* (cloud-fs lib.rs 84-209).  An FsPath is what check_path asks of it:     *)
(* whether it is absolute, a directory path, and has a Windows prefix.     *)
(***************************************************************************)
FsPath(absolute, directory, windows) ==
    [absolute |-> absolute, directory |-> directory, windows |-> windows]

FsPaths == {FsPath(a, d, w) : a \in BOOLEAN, d \in BOOLEAN, w \in BOOLEAN}

FsOperations == {"list_files", "get_file", "get_file_stream", "delete_file", "write_from_stream"}

\* what a backend may answer
BackendAnswers == {"Ok", "NotFound", "OtherError"}

\* an Fs that asks no operation for a directory path
ShouldBeDirNever(op) == FALSE

\* lib.rs 126, 138, 154, 169, 199: the second argument of check_path
ShouldBeDir(op) == op = "list_files"

\* lib.rs 84-108: "Ok", or the reason the path is refused
check_path(path, should_be_dir) ==
    IF ~path.absolute THEN "Requests must use an absolute path."
    ELSE IF should_be_dir /\ ~path.directory
    THEN "This request requires the path to a directory."
    ELSE IF ~should_be_dir /\ path.directory THEN "This request requires the path to a file."
    ELSE IF path.windows THEN "Paths should not include windows prefixes."
    ELSE "Ok"

FsApiNew(op, path, answer) ==
    /\ cfOp = op
    /\ cfPath = path
    /\ cfAnswer = answer
    /\ cfPc = "called"
    /\ cfResult = "None"
    /\ cfInvoked = <<>>

\* lib.rs 125-209: the operation checks its path and returns InvalidPath, or
\* goes on to the backend
FsCall ==
    /\ cfPc = "called"
    /\ IF check_path(cfPath, ShouldBeDir(cfOp)) # "Ok"
       THEN cfPc' = "done" /\ cfResult' = "InvalidPath"
       ELSE cfPc' = "backend" /\ UNCHANGED cfResult
    /\ UNCHANGED <<cfOp, cfPath, cfAnswer, cfInvoked>>
    /\ UNCHANGED notFsApi

\* lib.rs 130, 142, 158, 173, 206: self.backend.get().<operation>(path)
FsBackend ==
    /\ cfPc = "backend"
    /\ cfInvoked' = Append(cfInvoked, cfOp)
    /\ cfResult' = cfAnswer
    /\ cfPc' = "done"
    /\ UNCHANGED <<cfOp, cfPath, cfAnswer>>
    /\ UNCHANGED notFsApi

NextFsApi ==
    \/ FsCall
    \/ FsBackend

(***************************************************************************)
(* B2 list_objects: which buckets are listed   (b2.rs 470-517).            *)
(* A name is a sequence of characters, a path is its parts and whether it  *)
(* is a directory prefix.                                                  *)
(***************************************************************************)
BucketNames == {<<"b">>, <<"b", "b">>, <<"c">>}

Path(parts, dir) == [parts |-> parts, dir |-> dir]

\* ObjectPath::is_empty
is_empty(path) == path.parts = <<>>

\* ObjectPath::is_dir_prefix
is_dir_prefix(path) == path.parts = <<>> \/ path.dir

\* ObjectPath::join
join(path, other) ==
    IF other.parts = <<>> THEN Path(path.parts, path.dir \/ other.dir)
    ELSE Path(path.parts \o other.parts, other.dir)

\* ObjectPath::unshift_part: the first part, if any, and the rest
unshift_part(path) ==
    IF path.parts = <<>> THEN [part |-> <<>>, rest |-> path]
    ELSE [part |-> Head(path.parts), rest |-> Path(Tail(path.parts), path.dir)]

\* Option<String>
None == [some |-> FALSE, name |-> <<>>]
Some(name) == [some |-> TRUE, name |-> name]

\* a request that never names a bucket
bucket_name_unset(file_part, is_dir, bucket) == None

\* b2.rs 486-489: only include the bucket named `bucket`
bucket_name(file_part, is_dir, bucket) ==
    IF ~is_empty(file_part) \/ is_dir THEN Some(bucket) ELSE None

\* the B2 API: b2_list_buckets answers with the bucket of the given name,
\* or with every bucket of the account
b2_list_buckets(buckets, name) ==
    IF name.some THEN {b \in buckets : b = name.name} ELSE buckets

\* str::starts_with
starts_with(name, prefix) == IsPrefix(prefix, name)

\* b2.rs 470-478: the joined path split into the bucket and the rest
FilePart(backend_prefix, prefix) == unshift_part(join(backend_prefix, prefix)).rest
Bucket(backend_prefix, prefix) == unshift_part(join(backend_prefix, prefix)).part

\* b2.rs 495-509: one ListFileNamesStream for each bucket of the response
\* whose name starts with the bucket
Listers(buckets, bucket, file_part) ==
    {[bucket |-> b, prefix |-> file_part] : b \in {x \in buckets : starts_with(x, bucket)}}

BucketsNew(backend_prefix, prefix, buckets) ==
    /\ lbBackendPrefix = backend_prefix
    /\ lbPrefix = prefix
    /\ lbBuckets = buckets
    /\ lbRequest = None
    /\ lbListers = {}
    /\ lbPc = "called"
    /\ lbResult = "none"

\* The backend after an API call has found its session expired (b2.rs
\* 226, 252-259): the cache is empty until the next session() fills it.
B2Expired ==
    /\ session = 0
    /\ issued = 1
    /\ lock = 0
    /\ pc = [c \in Callers |-> "idle"]
    /\ authorization = [c \in Callers |-> 0]
    /\ tries = [c \in Callers |-> 0]
    /\ attempts = [c \in Callers |-> <<>>]
    /\ handshakes = [c \in Callers |-> 0]
    /\ awaited = [c \in Callers |-> 0]
    /\ result = [c \in Callers |-> "none"]

\* the B2Client list_objects works with (b2.rs 525, client())
ListClient == 1

\* b2.rs 481-493: with the account id the request is built and
\* b2_list_buckets, an API call of the client, is entered (b2.rs 207)
RequestBuckets ==
    /\ lbRequest' = bucket_name(FilePart(lbBackendPrefix, lbPrefix),
                                is_dir_prefix(join(lbBackendPrefix, lbPrefix)),
                                Bucket(lbBackendPrefix, lbPrefix))
    /\ lbPc' = "requested"
    /\ pc' = [pc EXCEPT ![ListClient] = "session"]
    /\ tries' = [tries EXCEPT ![ListClient] = 0]

\* b2.rs 475-493: list joins the paths and awaits account_id() (b2.rs
\* 150-153), which is session(): with a cached session it returns at once
\* and the request for the buckets is built; with an empty cache it locks
\* and sends the authorize handshake
ListBuckets ==
    /\ lbPc = "called"
    /\ lock = 0
    /\ IF session # 0
       THEN /\ RequestBuckets
            /\ UNCHANGED <<lock, handshakes>>
       ELSE /\ lock' = LockForAuthorize(ListClient)
            /\ handshakes' = [handshakes EXCEPT ![ListClient] = @ + 1]
            /\ lbPc' = "account"
            /\ UNCHANGED <<lbRequest, pc, tries>>
    /\ UNCHANGED <<session, authorization, attempts, awaited, result, issued>>
    /\ UNCHANGED <<lbBackendPrefix, lbPrefix, lbBuckets, lbListers, lbResult>>
    /\ UNCHANGED <<poolvars, listvars, mergevars, fsvars, readervars, opvars, cfvars, cnvars, wkvars>>

\* b2.rs 480, 266-268: the handshake of account_id() succeeds: the session
\* is cached, and the request for the buckets is built
AccountOk ==
    /\ lbPc = "account"
    /\ issued < MaxTokens
    /\ issued' = issued + 1
    /\ session' = SessionReplace(session, issued + 1)
    /\ lock' = LockAfterAuthorize(ListClient)
    /\ RequestBuckets
    /\ UNCHANGED <<authorization, attempts, handshakes, awaited, result>>
    /\ UNCHANGED <<lbBackendPrefix, lbPrefix, lbBuckets, lbListers, lbResult>>
    /\ UNCHANGED <<poolvars, listvars, mergevars, fsvars, readervars, opvars, cfvars, cnvars, wkvars>>

\* b2.rs 480 `?`: the handshake of account_id() fails, or request() panics
\* on its answer (b2.rs 168-171): list_objects ends, and no request for the
\* buckets is sent
AccountFail ==
    /\ lbPc = "account"
    /\ \E e \in HandshakeFailures : lbResult' = e
    /\ lock' = 0
    /\ lbPc' = "done"
    /\ UNCHANGED <<session, pc, authorization, tries, attempts, handshakes, awaited, result, issued>>
    /\ UNCHANGED <<lbBackendPrefix, lbPrefix, lbBuckets, lbRequest, lbListers>>
    /\ UNCHANGED <<poolvars, listvars, mergevars, fsvars, readervars, opvars, cfvars, cnvars, wkvars>>

\* the steps of the API call b2_list_buckets (b2.rs 202-237)
BucketsCall ==
    /\ lbPc = "requested"
    /\ \/ SessionCached(ListClient)
       \/ SessionAuthorize(ListClient)
       \/ AuthorizeOk(ListClient)
       \/ AuthorizeFail(ListClient)
       \/ Respond(ListClient)
       \/ Reset(ListClient)

\* b2.rs 492-514: b2_list_buckets has returned: its error, or its panic,
\* ends list_objects; of its buckets the listers are created
BucketsListed ==
    /\ lbPc = "requested"
    /\ pc[ListClient] = "done"
    /\ lbResult' = result[ListClient]
    /\ lbListers' = IF result[ListClient] = "Ok"
                    THEN Listers(b2_list_buckets(lbBuckets, lbRequest),
                                 Bucket(lbBackendPrefix, lbPrefix),
                                 FilePart(lbBackendPrefix, lbPrefix))
                    ELSE {}
    /\ lbPc' = "done"
    /\ UNCHANGED <<lbBackendPrefix, lbPrefix, lbBuckets, lbRequest>>
    /\ UNCHANGED notBuckets

NextBuckets ==
    \/ ListBuckets
    \/ AccountOk
    \/ AccountFail
    \/ BucketsCall
    \/ BucketsListed

\* paths of up to two parts, plain and as directory prefixes
BucketPaths ==
    {Path(parts, dir) : parts \in UNION {[1..n -> BucketNames] : n \in 0..2}, dir \in BOOLEAN}

BackendPrefixes == {Path(<<>>, FALSE), Path(<<<<"b">>>>, FALSE)}

(***************************************************************************)
(* connect: FileBackend::connect (file.rs 412-430) and                     *)
(* B2BackendBuilder::connect (b2.rs 414-442), followed by the first API    *)
(* calls on the handle.                                                    *)
(***************************************************************************)
\* a connect that takes any entry for a directory
IsRootNever(tree, target) == TRUE

\* file.rs 417: metadata.is_dir()
IsRoot(tree, target) == IsDirectory(tree, target)

\* file.rs 413-428: "Handle" or the kind of the error
FileConnect(tree, root) ==
    IF symlink_metadata(tree, root) # "Ok" THEN get_storage_error(symlink_metadata(tree, root))
    ELSE IF ~IsRoot(tree, root) THEN "InvalidSettings"
    ELSE "Handle"

\* the builder before connect: no session, nothing issued
B2Builder ==
    /\ session = 0
    /\ issued = 0
    /\ lock = 0
    /\ pc = [c \in Callers |-> "idle"]
    /\ authorization = [c \in Callers |-> 0]
    /\ tries = [c \in Callers |-> 0]
    /\ attempts = [c \in Callers |-> <<>>]
    /\ handshakes = [c \in Callers |-> 0]
    /\ awaited = [c \in Callers |-> 0]
    /\ result = [c \in Callers |-> "none"]

ConnectNew(tree, root) ==
    /\ cnTree = tree
    /\ cnRoot = root
    /\ cnFile = "None"
    /\ cnB2 = "new"

\* file.rs 412-430
ConnectFile ==
    /\ cnFile = "None"
    /\ cnFile' = FileConnect(cnTree, cnRoot)
    /\ UNCHANGED <<cnTree, cnRoot, cnB2>>
    /\ UNCHANGED <<b2vars, notConnect>>

\* b2.rs 416-436: the connector is built, or connect fails; then session()
\* locks the empty cache and sends the authorize handshake
ConnectB2 ==
    /\ cnB2 = "new"
    /\ \/ /\ cnB2' = "authorizing"
          /\ lock' = NumCallers + 1
       \/ /\ cnB2' = "ConnectionFailed"
          /\ UNCHANGED lock
    /\ UNCHANGED <<session, pc, authorization, tries, attempts, handshakes, awaited, result, issued>>
    /\ UNCHANGED <<cnTree, cnRoot, cnFile, notConnect>>

\* b2.rs 436, 266-268: the handshake succeeds, the session is cached and the
\* handle returned
ConnectB2Ok ==
    /\ cnB2 = "authorizing"
    /\ issued' = issued + 1
    /\ session' = SessionReplace(session, issued + 1)
    /\ lock' = 0
    /\ cnB2' = "Handle"
    /\ UNCHANGED <<pc, authorization, tries, attempts, handshakes, awaited, result>>
    /\ UNCHANGED <<cnTree, cnRoot, cnFile, notConnect>>

\* b2.rs 436 `?`: the handshake was sent and fails, and connect returns its
\* error: what the service answered (AccessDenied for 401, ConnectionFailed
\* for 503 bad_request, b2.rs 602-617), ConnectionFailed when the transport
\* could not connect (b2.rs 70-86), or request() panics on the body of the
\* answer (b2.rs 168-171)
ConnectB2Fail ==
    /\ cnB2 = "authorizing"
    /\ \E e \in HandshakeFailures \cup {"AccessDenied", "ConnectionFailed"} : cnB2' = e
    /\ lock' = 0
    /\ UNCHANGED <<session, pc, authorization, tries, attempts, handshakes, awaited, result, issued>>
    /\ UNCHANGED <<cnTree, cnRoot, cnFile, notConnect>>

\* an API call on the handle connect returned
ApiCall(c) == cnB2 = "Handle" /\ Call(c)

NextConnect ==
    \/ ConnectFile
    \/ ConnectB2
    \/ ConnectB2Ok
    \/ ConnectB2Fail
    \/ \E c \in Callers :
        \/ ApiCall(c)
        \/ SessionCached(c)

\* the roots connect is given: the base, an entry, or a path with no entry
Roots(tree) == Targets(tree) \cup {<<>>}

(***************************************************************************)
(* FileLister over a tree whose symlinks point to directories              *)
(* (file.rs 192-301).  read_dir follows the symlinks of the path it is     *)
(* given; symlink_metadata gives the type of the entry itself.             *)
(***************************************************************************)
\* a symlink that points to no directory
Dangling == <<"">>

\* the proper ancestors of a path, the base included
Ancestors(target) == {SubSeq(target, 1, k) : k \in 0..(Len(target) - 1)}

\* the trees of a walk: nothing is beneath a symlink, which points to a
\* directory of the tree or to nothing
WalkTrees == TreesOf[MaxEntries, "Dangling"]

\* the tree with its symlinks pointing where `links` says
Linked(tree, links) ==
    [q \in DOMAIN tree |->
        IF q \in DOMAIN links /\ links[q] # Dangling THEN Link("Directory") ELSE tree[q]]

\* the targets the symlinks of a tree may have: an ancestor directory or none
LinksOf(tree) ==
    LET links == {q \in DOMAIN tree : tree[q].type = "Symlink"}
    IN  {l \in [links -> UNION {Ancestors(q) : q \in links} \cup {Dangling}] :
            \A q \in links : l[q] = Dangling \/ l[q] \in Ancestors(q)}

NoDirectory(error) == [ok |-> FALSE, dir |-> <<>>, error |-> error]
Directory(dir) == [ok |-> TRUE, dir |-> dir, error |-> "Ok"]

\* the directory a path names for read_dir: every symlink on the way is
\* followed
RECURSIVE Resolve(_, _, _, _)
Resolve(tree, links, dir, rest) ==
    IF rest = <<>> THEN Directory(dir)
    ELSE LET next == Append(dir, Head(rest))
         IN  IF next \notin DOMAIN tree THEN NoDirectory("NotFound")
             ELSE IF tree[next].type = "Directory"
                  THEN Resolve(tree, links, next, Tail(rest))
             ELSE IF tree[next].type = "Symlink"
                  THEN IF links[next] = Dangling THEN NoDirectory("NotFound")
                       ELSE Resolve(tree, links, links[next], Tail(rest))
             ELSE NoDirectory("NotADirectory")

\* FileLister::list (file.rs 260-271): the stream of the prefix's parent is
\* pushed
WalkNew(tree, links, prefix) ==
    /\ wkTree = tree
    /\ wkLinks = links
    /\ wkPrefix = prefix
    /\ wkStreams = {PopPart(prefix)}
    /\ wkOpen = {}
    /\ wkItems = {}
    /\ wkReads = <<>>
    /\ wkOut = <<>>
    /\ wkEnded = FALSE

\* file.rs 222-244 on a tree with symlinks to directories: symlink_metadata
\* of an entry follows the symlinks above the entry and not the entry
\* itself; a name that is not Unicode gives InvalidData (file.rs 227-234)
WalkItem(tree, links, entry) ==
    LET at == Resolve(tree, links, <<>>, PopPart(entry.path))
        target == Append(at.dir, entry.path[Len(entry.path)])
    IN  IF ~IsUnicode(entry.path[Len(entry.path)])
        THEN ErrorItem("InvalidData", PopPart(entry.path))
        ELSE Object(entry.path, IF at.ok /\ target \in DOMAIN tree THEN tree[target].type
                                ELSE "Unknown")

\* the open directory read_dir returned for a path: the directory the path
\* resolved to
WalkDir(path, dir) == [path |-> path, dir |-> dir]

\* file.rs 197-220: the merger polls a stream that has not started, and
\* build_base awaits read_dir of the path, which opens the directory the
\* path resolves to and reads none of its entries; a failed read_dir is the
\* one item of the stream, which the lister returns in the poll that takes
\* it (file.rs 214-219, 295)
StartStream ==
    /\ ~wkEnded
    /\ \E path \in wkStreams :
        LET at == Resolve(wkTree, wkLinks, <<>>, get_std_path(path))
        IN  /\ wkStreams' = wkStreams \ {path}
            /\ IF at.ok
               THEN /\ wkReads' = Append(wkReads, at.dir)
                    /\ wkOpen' = wkOpen \cup {WalkDir(path, at.dir)}
                    /\ UNCHANGED wkOut
               ELSE /\ wkOut' = Append(wkOut, ErrorItem(get_storage_error(at.error), path))
                    /\ UNCHANGED <<wkReads, wkOpen>>
    /\ UNCHANGED <<wkTree, wkLinks, wkPrefix, wkItems, wkEnded>>
    /\ UNCHANGED notWalk

\* file.rs 222-224: the next poll of a stream whose directory is open reads
\* the names the directory holds
ReadEntries ==
    /\ ~wkEnded
    /\ \E open \in wkOpen :
        /\ wkOpen' = wkOpen \ {open}
        /\ wkItems' = wkItems \cup
                {DirEntry(PushPart(open.path, name)) : name \in EntryNames(wkTree, open.dir)}
    /\ UNCHANGED <<wkTree, wkLinks, wkPrefix, wkStreams, wkReads, wkOut, wkEnded>>
    /\ UNCHANGED notWalk

\* file.rs 225-244, 281-300: the stream stats the entry it has come to, and
\* FileLister::poll_next takes the item: an entry under the prefix is
\* returned, its stream added when it is a directory; any other entry is
\* passed over; an error is returned
TakeItem ==
    /\ ~wkEnded
    /\ \E i \in wkItems :
        LET item == WalkItem(wkTree, wkLinks, i)
        IN  /\ wkItems' = wkItems \ {i}
            /\ IF item.err # "None"
               THEN wkOut' = Append(wkOut, item) /\ UNCHANGED wkStreams
               ELSE IF StartsWith(item.path, wkPrefix)
               THEN /\ wkOut' = Append(wkOut, item)
                    /\ wkStreams' = IF Descends(item.type) THEN wkStreams \cup {item.path}
                                    ELSE wkStreams
               ELSE UNCHANGED <<wkOut, wkStreams>>
    /\ UNCHANGED <<wkTree, wkLinks, wkPrefix, wkOpen, wkReads, wkEnded>>
    /\ UNCHANGED notWalk

\* file.rs 296: the merger holds no stream any more
WalkEnd ==
    /\ ~wkEnded
    /\ wkStreams = {} /\ wkOpen = {} /\ wkItems = {}
    /\ wkEnded' = TRUE
    /\ UNCHANGED <<wkTree, wkLinks, wkPrefix, wkStreams, wkOpen, wkItems, wkReads, wkOut>>
    /\ UNCHANGED notWalk

NextWalk ==
    \/ StartStream
    \/ ReadEntries
    \/ TakeItem
    \/ WalkEnd

\* the prefixes of a walk: the base, and each entry as a plain path and as
\* a directory prefix
WalkPrefixes(tree) == {<<>>} \cup DOMAIN tree \cup {Append(q, "") : q \in DOMAIN tree}

(***************************************************************************)
(* Specifications                                                          *)
(***************************************************************************)
\* the subsystems a specification does not run stay as constructed
B2Idle == B2Init
PoolIdle == PoolNew(1)

ListIdle == ListNew(<<0>>, 0)
MergeIdle == MergeNew(<<>>)
FSIdle == FSNew(EmptyTree, <<>>)
ReaderIdle == ReaderNew("ReaderStream", 0, 0, 0)
WalkIdle == WalkNew(EmptyTree, EmptyTree, <<>>)
ConnectIdle == ConnectNew(EmptyTree, <<>>)
BucketsIdle == BucketsNew(Path(<<>>, FALSE), Path(<<>>, FALSE), {})
FsApiIdle == FsApiNew("get_file", FsPath(TRUE, FALSE, FALSE), "Ok")
OpsIdle == OpsNew("B2", "list_objects", <<>>, FALSE)

InitB2 == B2Init /\ PoolIdle /\ ListIdle /\ MergeIdle /\ FSIdle /\ ReaderIdle /\ OpsIdle /\ FsApiIdle /\ BucketsIdle /\ ConnectIdle /\ WalkIdle
SpecB2 == InitB2 /\ [][NextB2]_vars

InitPool == (\E k \in 1..MaxK : PoolNew(k)) /\ B2Idle /\ ListIdle /\ MergeIdle /\ FSIdle /\ ReaderIdle /\ OpsIdle /\ FsApiIdle /\ BucketsIdle /\ ConnectIdle /\ WalkIdle
SpecPool == InitPool /\ [][NextPool]_vars

\* a take() whose permit is free is woken and returns, and every guard is
\* in the end dropped
SpecPoolFair ==
    SpecPool /\ \A g \in Guards : WF_vars(Acquire(g)) /\ WF_vars(Drop(g))

InitList ==
    /\ \E sizes \in PageSizeSeqs : \E fail \in 0..Len(sizes) : ListNew(sizes, fail)
    /\ B2Idle /\ PoolIdle /\ MergeIdle /\ FSIdle /\ ReaderIdle /\ OpsIdle /\ FsApiIdle /\ BucketsIdle /\ ConnectIdle /\ WalkIdle
SpecList == InitList /\ [][NextList]_vars

InitMerge ==
    /\ \E lens \in SeedLens : MergeNew(lens)
    /\ B2Idle /\ PoolIdle /\ ListIdle /\ FSIdle /\ ReaderIdle /\ OpsIdle /\ FsApiIdle /\ BucketsIdle /\ ConnectIdle /\ WalkIdle
SpecMerge == InitMerge /\ [][NextMerge]_vars
\* no held stream stays Pending for ever, and the consumer keeps polling
SpecMergeFair == SpecMerge /\ WF_vars(MergePollWith({}))

InitFS ==
    /\ \E tree \in Trees : \E todo \in FSOps(tree) : FSNew(tree, todo)
    /\ B2Idle /\ PoolIdle /\ ListIdle /\ MergeIdle /\ ReaderIdle /\ OpsIdle /\ FsApiIdle /\ BucketsIdle /\ ConnectIdle /\ WalkIdle
SpecFS == InitFS /\ [][NextFS]_vars

InitRW ==
    /\ \E tree \in RoundTripTrees : \E chunks \in Chunkings : FSNew(tree, RoundTrip(chunks))
    /\ B2Idle /\ PoolIdle /\ ListIdle /\ MergeIdle /\ ReaderIdle /\ OpsIdle /\ FsApiIdle /\ BucketsIdle /\ ConnectIdle /\ WalkIdle
SpecRW == InitRW /\ [][NextRW]_vars

InitReader ==
    /\ \E cfg \in ReaderConfigs : \E len \in 0..MaxSourceLen :
            ReaderNew(cfg[1], cfg[2], cfg[3], len)
    /\ B2Idle /\ PoolIdle /\ ListIdle /\ MergeIdle /\ FSIdle /\ OpsIdle /\ FsApiIdle /\ BucketsIdle /\ ConnectIdle /\ WalkIdle
SpecReader == InitReader /\ [][NextReader]_vars

InitOps ==
    /\ \E op \in Operations : \E path \in OpPaths : \E cached \in BOOLEAN :
            OpsNew(op[1], op[2], path, cached)
    /\ B2Idle /\ PoolIdle /\ ListIdle /\ MergeIdle /\ FSIdle /\ ReaderIdle /\ FsApiIdle /\ BucketsIdle /\ ConnectIdle /\ WalkIdle
SpecOps == InitOps /\ [][NextOps]_vars

InitFsApi ==
    /\ \E op \in FsOperations : \E path \in FsPaths : \E answer \in BackendAnswers :
            FsApiNew(op, path, answer)
    /\ B2Idle /\ PoolIdle /\ ListIdle /\ MergeIdle /\ FSIdle /\ ReaderIdle /\ OpsIdle /\ BucketsIdle /\ ConnectIdle /\ WalkIdle
SpecFsApi == InitFsApi /\ [][NextFsApi]_vars

InitBuckets ==
    /\ \E backend_prefix \in BackendPrefixes : \E prefix \in BucketPaths :
        \E buckets \in SUBSET BucketNames : BucketsNew(backend_prefix, prefix, buckets)
    /\ B2Init \/ B2Expired
    /\ PoolIdle /\ ListIdle /\ MergeIdle /\ FSIdle /\ ReaderIdle /\ OpsIdle /\ FsApiIdle /\ ConnectIdle /\ WalkIdle
SpecBuckets == InitBuckets /\ [][NextBuckets]_vars

InitConnect ==
    /\ \E tree \in Trees : \E root \in Roots(tree) : ConnectNew(tree, root)
    /\ B2Builder
    /\ PoolIdle /\ ListIdle /\ MergeIdle /\ FSIdle /\ ReaderIdle /\ OpsIdle /\ FsApiIdle /\ BucketsIdle /\ WalkIdle
SpecConnect == InitConnect /\ [][NextConnect]_vars

InitWalk ==
    /\ \E tree \in WalkTrees : \E links \in LinksOf(tree) : \E prefix \in WalkPrefixes(tree) :
            WalkNew(Linked(tree, links), links, prefix)
    /\ B2Idle /\ PoolIdle /\ ListIdle /\ MergeIdle /\ FSIdle /\ ReaderIdle /\ OpsIdle /\ FsApiIdle /\ BucketsIdle /\ ConnectIdle
SpecWalk == InitWalk /\ [][NextWalk]_vars
SpecWalkFair == SpecWalk /\ WF_vars(NextWalk)

\* get_object of the two backends side by side
NextGet ==
    \/ GetObject
    \/ StatObject
    \/ Operation

InitGet ==
    /\ \E tree \in Trees : \E p \in Prefixes(tree) : FSNew(tree, <<Op("get", p, <<>>, "none")>>)
    /\ \E path \in OpPaths : OpsNew("B2", "get_object", path, FALSE)
    /\ B2Idle /\ PoolIdle /\ ListIdle /\ MergeIdle /\ ReaderIdle /\ FsApiIdle /\ BucketsIdle /\ ConnectIdle /\ WalkIdle
SpecGet == InitGet /\ [][NextGet]_vars

(***************************************************************************)
(* Claims about the B2 client, checked under SpecB2.                       *)
(***************************************************************************)
Token(a) == a[1]
Resp(a) == a[2]

\* C1: when an attempt of a call fails AccessExpired and the call's next
\* attempt succeeds, the call has returned that success (no error reaches the
\* caller, nothing more is sent), and the successful attempt carried a token
\* other than the failed one, issued by a later authorize handshake: the
\* failed session was invalidated and replaced before the request was re-sent.
C1_ExpiredThenOkReturnsOk ==
    \A c \in Callers : \A i \in 1..(Len(attempts[c]) - 1) :
        (Resp(attempts[c][i]) = "AccessExpired" /\ Resp(attempts[c][i + 1]) = "Ok")
        => /\ pc[c] = "done"
           /\ result[c] = "Ok"
           /\ Len(attempts[c]) = i + 1
           /\ Token(attempts[c][i + 1]) > Token(attempts[c][i])
           /\ Token(attempts[c][i + 1]) <= issued
           /\ session # Token(attempts[c][i])

\* a call whose first attempt failed AccessExpired, that then sent its own
\* handshake and succeeded on the second attempt
C1_Witness ==
    \E c \in Callers :
        /\ Len(attempts[c]) = 2
        /\ Resp(attempts[c][1]) = "AccessExpired"
        /\ Resp(attempts[c][2]) = "Ok"
        /\ handshakes[c] = 1
        /\ result[c] = "Ok"

AllExpired(c) ==
    \A i \in 1..Len(attempts[c]) : Resp(attempts[c][i]) = "AccessExpired"

\* C2: a call sends at most API_RETRIES (3) POST attempts; when all three
\* have failed AccessExpired no further attempt is sent and the call returns
\* the AccessExpired error.
C2_RetryBudget ==
    \A c \in Callers :
        /\ Len(attempts[c]) <= API_RETRIES
        /\ (Len(attempts[c]) = API_RETRIES /\ AllExpired(c))
           => /\ pc[c] \in {"reset", "done"}
              /\ pc[c] = "done" => result[c] = "AccessExpired"

\* a call that has returned AccessExpired after three expired attempts
C2_Witness ==
    \E c \in Callers :
        /\ pc[c] = "done"
        /\ Len(attempts[c]) = 3
        /\ AllExpired(c)
        /\ result[c] = "AccessExpired"

\* C3: reset_session(t) clears the cache exactly when the cached token is t,
\* and leaves any other cached session in place; a caller that then finds a
\* session in the cache retries with that token and sends no handshake.
C3_ResetOnlyOwnToken ==
    [][\A c \in Callers :
         /\ (pc[c] = "reset" /\ pc'[c] # "reset")
            => session' = (IF session = authorization[c] THEN 0 ELSE session)
         /\ (pc[c] = "session" /\ pc'[c] # "session" /\ session # 0)
            => /\ handshakes'[c] = handshakes[c]
               /\ authorization'[c] = session
               /\ session' = session
               /\ pc'[c] \in {"wait", "done"}
               /\ pc'[c] = "wait" =>
                    attempts'[c] = Append(attempts[c], <<session, "sent">>)]_vars

\* two callers failed with the same expired token; one re-authorized, the
\* other kept the new session and re-sent with it without any handshake
C3_Witness ==
    \E c, d \in Callers :
        /\ c # d
        /\ Len(attempts[c]) = 2 /\ Len(attempts[d]) >= 2
        /\ Resp(attempts[c][1]) = "AccessExpired"
        /\ Resp(attempts[d][1]) = "AccessExpired"
        /\ Token(attempts[c][1]) = Token(attempts[d][1])
        /\ handshakes[d] = 1
        /\ handshakes[c] = 0
        /\ Token(attempts[c][2]) = Token(attempts[d][2])
        /\ Token(attempts[c][2]) # Token(attempts[c][1])
        /\ session = Token(attempts[c][2])

\* a request of the caller is on the network: the authorize handshake or
\* the POST of the API call
InFlight(c) == pc[c] \in {"authorizing", "wait"}

\* C11 as the spec states it: at no time is the session lock held while a
\* network request is in flight.
C11_LockNeverAcrossRequest == lock # 0 => \A c \in Callers : ~InFlight(c)

\* C11, amended: the session lock is held across one kind of request only,
\* the authorize handshake its holder sends to fill the empty cache; every
\* other hold is a read or replace of the cache that ends within the step.
C11_LockOnlyAcrossHandshake ==
    lock # 0 => (lock \in Callers /\ pc[lock] = "authorizing" /\ session = 0)

\* the lock is held across a handshake while the POST of another caller is
\* in flight
C11_Witness ==
    /\ lock # 0
    /\ pc[lock] = "authorizing"
    /\ \E d \in Callers : d # lock /\ pc[d] = "wait"

\* C12: the lock is released before the POST of an API call is sent and
\* stays free of that caller until the response, so POSTs of concurrent
\* callers are in flight together; the only request sent under the lock is
\* the authorize handshake, and it is sent with the cache empty.
C12_LockFreeAcrossApiCall ==
    \A c \in Callers :
        /\ pc[c] \in {"wait", "reset", "done"} => lock # c
        /\ pc[c] = "authorizing" => (lock = c /\ session = 0)

\* the POSTs of two callers in flight together, the lock free
C12_Witness ==
    /\ lock = 0
    /\ \E c, d \in Callers : c # d /\ pc[c] = "wait" /\ pc[d] = "wait"

\* C13: session() with a non-empty cache returns the cached session and no
\* request is sent; a handshake is sent only with the cache empty; and a
\* successful handshake leaves in the cache exactly the session it returned,
\* which is the one session() gives its caller.
C13_SessionAcquisition ==
    [][\A c \in Callers :
         /\ (pc[c] = "session" /\ pc'[c] # "session" /\ session # 0)
            => /\ handshakes' = handshakes
               /\ issued' = issued
               /\ session' = session
               /\ authorization'[c] = session
         /\ handshakes'[c] # handshakes[c]
            => (session = 0 /\ pc'[c] = "authorizing")
         /\ (pc[c] = "authorizing" /\ issued' # issued)
            => /\ issued' = issued + 1
               /\ session' = issued'
               /\ authorization'[c] = session']_vars

\* a caller filled the empty cache with its handshake and another caller
\* took that session from the cache without a handshake of its own
C13_Witness ==
    \E c, d \in Callers :
        /\ c # d
        /\ handshakes[c] = 1 /\ handshakes[d] = 0
        /\ pc[c] = "wait" /\ pc[d] = "wait"
        /\ session # 0 /\ session # 1
        /\ authorization[c] = session /\ authorization[d] = session

(***************************************************************************)
(* Claims about the file backend, checked under SpecFS and SpecRW.         *)
(***************************************************************************)
\* the operation has finished
Finished(kind) == cur.kind = kind /\ fpc = "idle" /\ Len(outcomes) = 1

\* the operation runs with no other task at work on its path
Alone == cur.other = "none"

\* the store is what it was before the call, or what the other task has
\* made of that
StoreAsLeft ==
    IF cur.other = "done"
    THEN \E task \in OtherTasks : fs = Disturbed(fs0, get_std_path(cur.path), task)
    ELSE fs = fs0

\* the entry is inside the directory at path: beneath it, with nothing but
\* directories from the path down to it, so not behind a symlink
Inside(tree, path, q) ==
    /\ IsPrefix(path, q) /\ q # path
    /\ \A k \in Len(path)..(Len(q) - 1) : IsDirectory(tree, SubSeq(q, 1, k))

\* a directory inside the one at path that holds a directory
NestedDirectory(tree, path) ==
    \E d, e \in DOMAIN tree :
        /\ Inside(tree, path, d)
        /\ tree[d].type = "Directory"
        /\ e \in Children(tree, d)
        /\ tree[e].type = "Directory"

\* C4: delete_object on a directory, whatever tree of files and
\* subdirectories is beneath it, removes every file before any directory
\* and every subdirectory before its parent, completes successfully, and
\* leaves nothing at or beneath the path (the host failing nothing and no
\* other task at work on the path).
C4_RecursiveDelete ==
    (Finished("delete") /\ Alone /\ cur.fault = "none" /\ cur.path \in DOMAIN fs0
        /\ IsDirectory(fs0, cur.path)) =>
        /\ outcomes[1] = Ok
        /\ \A q \in DOMAIN fs : ~IsPrefix(cur.path, q)
        /\ \A i, j \in 1..Len(removals) :
            /\ (removals[i].type # "Directory" /\ removals[j].type = "Directory") => i < j
            /\ (i # j /\ IsPrefix(removals[j].path, removals[i].path)) => i < j

\* what the code does keep: non-directories are removed before directories,
\* and the delete of a directory succeeds, leaving nothing, exactly when no
\* directory beneath it holds a directory
DeleteOnlyShallow ==
    /\ \A i, j \in 1..Len(removals) :
        (removals[i].type # "Directory" /\ removals[j].type = "Directory") => i < j
    /\ (Finished("delete") /\ Alone /\ cur.fault = "none" /\ cur.path \in DOMAIN fs0
            /\ IsDirectory(fs0, cur.path)) =>
        IF NestedDirectory(fs0, cur.path)
        THEN outcomes[1] = Err("OtherError") /\ cur.path \in DOMAIN fs
        ELSE outcomes[1] = Ok /\ \A q \in DOMAIN fs : ~IsPrefix(cur.path, q)

\* a write whose source yields no error and during which the host fails
\* no write, flush or shutdown, with no other task at work on the path
Undisturbed ==
    /\ Alone
    /\ cur.fault = "none"
    /\ \A i \in 1..Len(cur.chunks) : ~IsSourceError(cur.chunks[i])

\* C5: write_file_from_stream to a path that holds a directory, whatever the
\* directory contains, succeeds and leaves at the path a single regular
\* file holding exactly the written bytes, with nothing beneath it.
C5_OverwriteDirectory ==
    (Finished("write") /\ Undisturbed /\ cur.path \in DOMAIN fs0
        /\ IsDirectory(fs0, cur.path)) =>
        /\ outcomes[1] = Ok
        /\ cur.path \in DOMAIN fs
        /\ fs[cur.path] = FileEntry(Bytes(sent))
        /\ sent = SumLens(cur.chunks)
        /\ \A q \in DOMAIN fs : IsPrefix(cur.path, q) => q = cur.path

\* what the code does keep: the overwrite of a directory succeeds exactly
\* when no directory beneath it holds a directory
OverwriteOnlyShallow ==
    (Finished("write") /\ Undisturbed /\ cur.path \in DOMAIN fs0
        /\ IsDirectory(fs0, cur.path)) =>
        IF NestedDirectory(fs0, cur.path)
        THEN outcomes[1] = TargetError("OtherError") /\ IsDirectory(fs, cur.path)
        ELSE /\ outcomes[1] = Ok
             /\ fs[cur.path] = FileEntry(Bytes(SumLens(cur.chunks)))
             /\ \A q \in DOMAIN fs : IsPrefix(cur.path, q) => q = cur.path

Listed == {i \in 1..Len(lsOut) : lsOut[i].err = "None"}
Matching(tree, prefix) == {q \in DOMAIN tree : StartsWith(q, prefix)}

\* the entries a listing of the prefix comes to: those that start with the
\* prefix and lie beneath the prefix's parent with nothing but directories
\* on the way down, so not behind a symlink below that parent
Walked(tree, prefix) ==
    {q \in Matching(tree, prefix) :
        \A k \in (Len(get_std_path(PopPart(prefix))) + 1)..(Len(q) - 1) :
            IsDirectory(tree, SubSeq(q, 1, k))}

\* C6 as stated: list_objects(X) yields exactly the objects whose path
\* starts with X: never an object that does not, none twice, and by the end
\* of the stream every one of them, at any depth (no other task at work on
\* the path).
C6_PrefixListing ==
    (cur.kind = "list" /\ Alone) =>
        /\ \A i \in Listed :
            /\ lsOut[i].path \in Matching(fs0, cur.path)
            /\ lsOut[i].type = fs0[lsOut[i].path].type
        /\ \A i, j \in Listed : lsOut[i].path = lsOut[j].path => i = j
        /\ lsEnded => {lsOut[i].path : i \in Listed} = Matching(fs0, cur.path)

\* what the code does keep: the same of the objects that are not behind a
\* symlink: an entry that is a symlink is yielded as an object of type
\* Symlink, and what the directory it points to holds is yielded only by a
\* listing whose prefix leads through the symlink.
PrefixListingOfWalked ==
    (cur.kind = "list" /\ Alone) =>
        /\ \A i \in Listed :
            /\ lsOut[i].path \in Walked(fs0, cur.path)
            /\ lsOut[i].type = fs0[lsOut[i].path].type
        /\ \A i, j \in Listed : lsOut[i].path = lsOut[j].path => i = j
        /\ lsEnded => {lsOut[i].path : i \in Listed} = Walked(fs0, cur.path)

\* another task put a directory in the place of the file between the stat
\* of delete_object and its remove_file: the call failed and removed nothing
RacedDelete ==
    /\ Finished("delete") /\ cur.other = "done"
    /\ outcomes[1] = Err("OtherError") /\ removals = <<>>
    /\ IsDirectory(fs, get_std_path(cur.path))

\* another task removed the file between the stat of write_file_from_stream
\* and its remove_file: the call failed with the target's NotFound
RacedWrite ==
    /\ Finished("write") /\ cur.other = "done"
    /\ outcomes[1] = TargetError("NotFound") /\ removals = <<>>
    /\ get_std_path(cur.path) \notin DOMAIN fs

\* another task put a symlink to nowhere in the place of the file before
\* File::create: the create followed the symlink and failed
CreateThroughLink ==
    /\ Finished("write") /\ cur.other = "done"
    /\ outcomes[1] = TargetError("NotFound") /\ removals # <<>>
    /\ LinksTo(fs, get_std_path(cur.path), "Nowhere")

\* another task put a directory in the place of the file between the stat
\* of get_file_stream and its open: the stream yields an error item
RacedRead ==
    /\ cur.kind = "read" /\ fpc = "reading" /\ cur.other = "done"
    /\ rdErrors = <<"OtherError">> /\ rdData = <<>>

\* a finished listing of the base that yielded a symlink to a directory
\* and nothing of what that directory holds
ListedLink ==
    /\ cur.kind = "list" /\ lsEnded /\ cur.path = <<>>
    /\ \E i \in Listed :
        /\ LinksTo(fs0, lsOut[i].path, "Directory")
        /\ Children(fs0, lsOut[i].path) # {}

\* a finished listing of a prefix, not the base, that yielded an entry two
\* levels down and left out an entry that does not start with the prefix
ListedBelowPrefix ==
    /\ cur.kind = "list" /\ lsEnded
    /\ Parts(cur.path) # <<>>
    /\ \E i \in Listed : Len(lsOut[i].path) >= 2
    /\ \E i \in Listed : lsOut[i].type = "Directory"
    /\ \E q \in DOMAIN fs0 : ~StartsWith(q, cur.path)

\* C7: after a successful write_file_from_stream of any chunks to a path,
\* with nothing else at work on the path, the chunks get_file_stream yields
\* for that path are, concatenated, the bytes written: a prefix of them
\* while the stream runs, all of them when it has ended.
C7_RoundTrip ==
    (cur.kind = "read" /\ Len(outcomes) >= 1 /\ outcomes[1] = Ok /\ ops = <<>>) =>
        /\ IsPrefix(rdData, Bytes(sent))
        /\ Len(outcomes) = 2 => (outcomes[2] = Ok /\ rdData = Bytes(sent))

\* a round trip of more bytes than the read buffer holds, in two chunks,
\* onto a path that held a directory
C7_Witness ==
    /\ cur.kind = "read" /\ Len(outcomes) = 2
    /\ outcomes[1] = Ok /\ outcomes[2] = Ok
    /\ sent > INITIAL_BUFFER_SIZE
    /\ rdData = Bytes(sent)
    /\ IsDirectory(fs0, cur.path)

\* the failure of the stat of the object path, "Ok" when it does not fail
StatOf(path) == symlink_metadata(fs0, get_std_path(path))

\* C18: a failure of a host primitive reaches the caller as a storage error,
\* NotFound for not-found and OtherError for anything else, and never as a
\* successful result: when the stat of the path of a get_object or a
\* delete_object fails, the operation returns that error (no other task at
\* work on the path).
C18_HostFailuresReported ==
    (Alone /\ ((Finished("get") /\ ~IsDirPrefix(cur.path)) \/ Finished("delete"))) =>
        (StatOf(cur.path) # "Ok" => outcomes[1] = Err(get_storage_error(StatOf(cur.path))))

\* what the code does keep: delete_object reports every stat failure, and
\* get_object reports not-found, and answers any other stat failure with
\* an object of unknown type
StatFailuresOfGetObject ==
    /\ (Finished("delete") /\ Alone) =>
        (StatOf(cur.path) # "Ok" => outcomes[1] = Err(get_storage_error(StatOf(cur.path))))
    /\ (Finished("get") /\ Alone /\ ~IsDirPrefix(cur.path)) =>
        /\ StatOf(cur.path) = "NotFound" => outcomes[1] = Err("NotFound")
        /\ StatOf(cur.path) \notin {"Ok", "NotFound"} =>
            outcomes[1] = [tag |-> "Ok", kind |-> "Unknown"]
        /\ StatOf(cur.path) = "Ok" =>
            outcomes[1] = [tag |-> "Ok", kind |-> fs0[get_std_path(cur.path)].type]

\* get_object of a path beneath a regular file has returned an object
SwallowedStatFailure ==
    /\ Finished("get") /\ StatOf(cur.path) = "NotADirectory"
    /\ outcomes[1].tag = "Ok"

\* a listing has yielded an object of unknown type: another task removed
\* the entry after its directory was read and before it was stat'ed
ListedUnknown ==
    /\ cur.kind = "list" /\ cur.other = "done"
    /\ \E i \in 1..Len(lsOut) : lsOut[i].err = "None" /\ lsOut[i].type = "Unknown"

\* the write loop of write_file_from_stream is at work on the created file
InWriteLoop == cur.kind = "write" /\ fpc \in {"writing", "write_all", "flush", "shutdown"}

\* the bytes of the chunks the source has yielded, all but the one that is
\* being written
WrittenSoFar == Bytes(sent - Len(chunk))

\* C16: within one write_file_from_stream call the file the call created
\* always holds a prefix of the bytes the source has yielded so far, in
\* their order: whenever the source is asked for a chunk, and at the flush
\* and the close, no chunk is left to write and the file holds all of them;
\* while a chunk is being written it holds all but that chunk; and the path
\* shows what the file holds for as long as it names the file.
C16_ChunksInOrder ==
    /\ (cur.kind = "write" /\ wrFile.type = "File") => IsPrefix(wrFile.data, Bytes(sent))
    /\ InWriteLoop =>
        /\ wrFile.type = "File"
        /\ fpc \in {"writing", "flush", "shutdown"} =>
            (chunk = <<>> /\ wrFile.data = Bytes(sent))
        /\ fpc = "write_all" =>
            (wrFile.data = WrittenSoFar /\ wrFile.data \o chunk = Bytes(sent))
        /\ wrFile.linked =>
            /\ get_std_path(cur.path) \in DOMAIN fs
            /\ fs[get_std_path(cur.path)].data = wrFile.data

\* the third chunk of a source is about to be written: the file at the
\* path holds the first chunk, the second was empty
C16_Witness ==
    /\ InWriteLoop /\ fpc = "write_all"
    /\ Len(cur.chunks) = 3 /\ src = <<>>
    /\ chunk # <<>> /\ sent > Len(chunk)
    /\ wrFile.linked
    /\ fs[get_std_path(cur.path)].data = WrittenSoFar

\* the same after another task has removed the file from the path: the
\* file the call created holds the first chunk, and the path holds nothing
C16_WitnessUnlinked ==
    /\ InWriteLoop /\ fpc = "write_all"
    /\ Len(cur.chunks) = 3 /\ src = <<>>
    /\ chunk # <<>> /\ wrFile.data = Bytes(1)
    /\ cur.other = "done" /\ ~wrFile.linked
    /\ get_std_path(cur.path) \notin DOMAIN fs

\* the items the call has taken from its source
Taken == Len(cur.chunks) - Len(src)

\* the source has yielded an error item to the call
YieldedError == \E i \in 1..Taken : IsSourceError(cur.chunks[i])

\* the path shows what the file of the call holds, while it names the file
PathShows(data) ==
    wrFile.linked =>
        /\ get_std_path(cur.path) \in DOMAIN fs
        /\ fs[get_std_path(cur.path)] = FileEntry(data)

\* C17: write_file_from_stream ends with SourceError exactly when its source
\* has yielded an error item; the call ends with that item, which is the
\* last it takes, with no chunk left to write and all the chunks before it
\* in the file.  It ends with Ok only when the whole source is in the file
\* and neither flush nor close failed.  Every other end is a TargetError:
\* that of a path that does not convert, before anything is touched; that
\* of a call that came to create no file, because the removal of what was
\* there or the create failed; that of a write that left the file short;
\* and that of a flush or a close that failed.
C17_SourceOrTarget ==
    /\ (cur.kind = "write" /\ YieldedError) =>
        /\ Finished("write")
        /\ IsSourceError(cur.chunks[Taken])
        /\ \A i \in 1..(Taken - 1) : ~IsSourceError(cur.chunks[i])
        /\ chunk = <<>>
        /\ wrFile.type = "File" /\ wrFile.data = Bytes(sent)
        /\ PathShows(Bytes(sent))
    /\ Finished("write") =>
        /\ outcomes[1].tag \in {"Ok", "SourceError", "TargetError"}
        /\ outcomes[1].tag = "SourceError" <=> YieldedError
        /\ outcomes[1].tag = "Ok" =>
            /\ src = <<>> /\ sent = SumLens(cur.chunks)
            /\ cur.fault \notin {"path", "flush", "shutdown"}
            /\ wrFile.type = "File" /\ wrFile.data = Bytes(sent)
            /\ PathShows(Bytes(sent))
        /\ cur.fault = "path" =>
            /\ outcomes[1] = TargetError("InvalidPath")
            /\ fs = fs0 /\ removals = <<>> /\ lsOut = <<>>
            /\ wrFile = NoWriter /\ Taken = 0
        /\ wrFile.type = "None" => outcomes[1].tag = "TargetError"
        /\ (wrFile.type = "File" /\ wrFile.data # Bytes(sent)) =>
            outcomes[1].tag = "TargetError"
        /\ (cur.fault \in {"flush", "shutdown"} /\ ~YieldedError) =>
            outcomes[1].tag = "TargetError"

\* a source whose second item is an error: the call ended with SourceError,
\* one chunk written, the third item still in the source
C17_Witness ==
    /\ Finished("write") /\ outcomes[1].tag = "SourceError"
    /\ Taken = 2 /\ Len(src) = 1 /\ sent = 1
    /\ wrFile.linked
    /\ fs[get_std_path(cur.path)].data = Bytes(1)

\* a write that failed after a part of a chunk ended with TargetError
C17_WitnessTarget ==
    /\ Finished("write") /\ outcomes[1].tag = "TargetError"
    /\ cur.fault = "write" /\ chunk # <<>>
    /\ wrFile.type = "File" /\ wrFile.data # Bytes(sent)

\* a write to a path that does not convert ended with TargetError and left
\* the file that was at the path
C17_WitnessPath ==
    /\ Finished("write") /\ cur.fault = "path"
    /\ outcomes[1] = TargetError("InvalidPath")
    /\ get_std_path(cur.path) \in DOMAIN fs
    /\ fs[get_std_path(cur.path)].type = "File"

\* a close that failed, and a create that failed because another task had
\* put a directory at the path, ended with TargetError
C17_WitnessClose ==
    /\ Finished("write") /\ outcomes[1].tag = "TargetError"
    /\ \/ cur.fault = "shutdown" /\ src = <<>> /\ wrFile.data = Bytes(sent)
       \/ cur.other = "done" /\ wrFile.type = "None"

(***************************************************************************)
(* Claims about the buffered read streams, checked under SpecReader.       *)
(***************************************************************************)
RECURSIVE Emitted(_)
\* the chunks among the items, concatenated in order
Emitted(items) ==
    IF items = <<>> THEN <<>> ELSE Head(items).data \o Emitted(Tail(items))

\* C14: the chunks the stream has emitted are, concatenated, the bytes the
\* source has delivered; no chunk is empty; and the stream has ended
\* exactly when the source has answered a read with zero bytes.
C14_ChunksAreSourceBytes ==
    /\ Emitted(rsItems) = Bytes(rsPos)
    /\ \A i \in 1..Len(rsItems) : rsItems[i].err = "None" => rsItems[i].data # <<>>
    /\ rsEnded = rsZero

\* a source of three or more bytes read to its end in several chunks
C14_Witness ==
    /\ rsEnded
    /\ rsLen >= 3
    /\ rsPos = rsLen
    /\ Len(rsItems) >= 2
    /\ Emitted(rsItems) = Bytes(rsLen)

\* the reads the stream has issued: each emitted an item or ended the stream
ReadsIssued == Len(rsItems) + (IF rsEnded THEN 1 ELSE 0)

\* C15: after the source reports an I/O error the stream yields that error
\* and terminates: the error is its last item and no read follows it.
C15_ErrorTerminates ==
    \A i \in 1..Len(rsItems) :
        rsItems[i].err # "None" => (i = Len(rsItems) /\ ReadsIssued = i)

\* what the code does keep: each error of the source is yielded once, a
\* ReadStream maps it to a storage error, and no byte is lost by it
ErrorsAreYielded ==
    /\ Cardinality({i \in 1..Len(rsItems) : rsItems[i].err # "None"}) = rsErrors
    /\ \A i \in 1..Len(rsItems) :
        rsItems[i].err # "None" =>
            IF rsKind = "ReadStream" THEN rsItems[i].err \in {"NotFound", "OtherError"}
            ELSE rsItems[i].err \in ReadErrors
    /\ Emitted(rsItems) = Bytes(rsPos)

(***************************************************************************)
(* Claims about the permit pool, checked under SpecPool.                   *)
(***************************************************************************)
\* C8: at most K guards hold a permit at any time, whichever clone of the
\* pool they were taken from, and every permit that is not held by a guard
\* is back in the pool: a released or dropped guard has returned its permit.
C8_AtMostKGuards ==
    /\ Cardinality(HeldGuards) <= poolK
    /\ permits = poolK - Cardinality(HeldGuards)

\* the pool is exhausted, one guard has been dropped and one released, and a
\* further take() is waiting
C8_Witness ==
    /\ Cardinality(HeldGuards) = poolK
    /\ permits = 0
    /\ \E g \in Guards : guard[g] = "waiting"
    /\ \E g \in Guards : guard[g] \in {"dropped", "released"}

\* C28: when every guard is in the end dropped, a take() that waits for a
\* permit in the end returns its guard; and take() returns a guard only by
\* taking a free permit from the pool.
C28_TakeReturns ==
    /\ \A g \in Guards : (guard[g] = "waiting") ~> (guard[g] = "held")
    /\ [][\A g \in Guards :
            (guard[g] # "held" /\ guard'[g] = "held") =>
                (guard[g] = "waiting" /\ permits > 0 /\ permits' = permits - 1)]_vars

\* two take() calls are suspended on a pool of one permit, which a guard
\* holds
C28_Witness ==
    /\ poolK = 1 /\ permits = 0
    /\ Cardinality({g \in Guards : guard[g] = "waiting"}) = 2
    /\ Cardinality(HeldGuards) = 1

(***************************************************************************)
(* Claims about the paginated listing, checked under SpecList.             *)
(***************************************************************************)

\* the cursors of a complete listing: None, then each page's next cursor
Cursors == [i \in 1..Len(pageSizes) |-> i - 1]

\* C9: for any sequence of pages (empty pages included) answered without an
\* error, the stream emits the items of the pages in order, each once, every
\* follow-up request starts at the cursor the previous response returned, no
\* request follows the last page, and the stream then ends: it does not stop
\* before it has ended.
C9_PaginatedListing ==
    failAt = 0 =>
        /\ IsPrefix(yielded, AllItems)
        /\ IsPrefix(requests, Cursors)
        /\ ended => (yielded = AllItems /\ requests = Cursors)
        /\ (~ENABLED NextList) => ended

\* the parts of C9 that hold of the code: order, cursors and the end state
ListingSafe ==
    failAt = 0 =>
        /\ IsPrefix(yielded, AllItems)
        /\ IsPrefix(requests, Cursors)
        /\ ended => (yielded = AllItems /\ requests = Cursors)

\* the stream can stop without having ended only after an empty page that
\* carried a cursor
ListingStallsOnlyOnEmptyPage ==
    (failAt = 0 /\ ~ended /\ ~ENABLED NextList)
        => \E k \in 1..(Len(pageSizes) - 1) : pageSizes[k] = 0

(***************************************************************************)
(* Claims about the stream merger, checked under SpecMerge.                *)
(***************************************************************************)
Range(f) == {f[i] : i \in DOMAIN f}

\* C10: a merger whose streams (seeded or inserted during consumption) hold
\* M items in all never yields more than M items nor an item twice, signals
\* completion only when no held stream is left, and has then yielded
\* exactly M items; and when no stream stays pending for ever it does
\* complete.
MergeSafe ==
    /\ mCount <= mTotal
    /\ Cardinality(mYielded) = mCount
    /\ mCount + SumLens([i \in 1..Len(mStreams) |-> Len(mStreams[i])]) = mTotal
    /\ mDone => (mStreams = <<>> /\ mCount = mTotal)

C10_MergeYieldsAll == []MergeSafe /\ <>mDone

\* a merger seeded with two streams, with one inserted later, that has
\* yielded its three or more items and completed
C10_Witness ==
    /\ mDone
    /\ mCreated >= 3
    /\ mInserts >= 1
    /\ mTotal >= 3
    /\ mCount = mTotal

\* the entry at the path of the operation before the call: "None" when
\* there is none
EntryAt(path) ==
    IF get_std_path(path) \in DOMAIN fs0 THEN fs0[get_std_path(path)].type ELSE "None"

\* C24: get_object fails with NotFound exactly when no entry exists at the
\* path; get_file_stream returns a byte stream exactly when the entry at
\* the path is a regular file and fails with NotFound for a missing entry,
\* a directory or a symlink (no other task at work on the path).
C24_NotFound ==
    /\ (Finished("get") /\ Alone /\ ~IsDirPrefix(cur.path)) =>
        (outcomes[1] = Err("NotFound") <=> EntryAt(cur.path) = "None")
    /\ (cur.kind = "read" /\ Alone /\ fpc = "reading") => EntryAt(cur.path) = "File"
    /\ (Finished("read") /\ Alone /\ EntryAt(cur.path) # "File") =>
        outcomes[1] = Err("NotFound")

\* what the code does keep: the same, for a path that no regular file or
\* symlink to one stands above; beneath one, get_object returns an object of
\* unknown type and get_file_stream fails with OtherError
NotFoundBelowDirectories ==
    LET blocked == BlockedBy(fs0, get_std_path(cur.path))
    IN  /\ (Finished("get") /\ Alone /\ ~IsDirPrefix(cur.path)) =>
            /\ ~blocked => (outcomes[1] = Err("NotFound") <=> EntryAt(cur.path) = "None")
            /\ blocked => outcomes[1] = [tag |-> "Ok", kind |-> "Unknown"]
        /\ (cur.kind = "read" /\ Alone /\ fpc = "reading") => EntryAt(cur.path) = "File"
        /\ (Finished("read") /\ Alone /\ EntryAt(cur.path) # "File") =>
            outcomes[1] = IF blocked THEN Err("OtherError") ELSE Err("NotFound")

\* get_file_stream of a directory has failed with NotFound
ReadOfDirectory ==
    /\ Finished("read") /\ EntryAt(cur.path) = "Directory"
    /\ outcomes[1] = Err("NotFound")

\* the operation reads: list_objects, get_object or get_file_stream
Reads == cur.kind \in {"list", "get", "read"}

\* C27: list_objects, get_object and get_file_stream never change the
\* store: at every point of the call and of the stream it returns, consumed
\* fully, partly or not at all, the entries and their contents are what
\* they were before the call, or what another task at work on the store
\* has made of them; no step of the operation itself changes the store.
C27_ReadsLeaveStore ==
    /\ [](Reads => StoreAsLeft)
    /\ [][(Reads /\ fs' # fs) =>
            /\ cur.other \in OtherTasks /\ cur'.other = "done"
            /\ fs' = Disturbed(fs, get_std_path(cur.path), cur.other)
            /\ <<fpc, outcomes, lsOut, rdData, rdErrors>>' =
                    <<fpc, outcomes, lsOut, rdData, rdErrors>>]_vars

\* a listing that has yielded one of several objects and has not ended,
\* with the store as it was
C27_Witness ==
    /\ cur.kind = "list" /\ fpc = "listing" /\ ~lsEnded
    /\ Len(lsOut) = 1 /\ lsItems # {}
    /\ fs = fs0 /\ fs # EmptyTree

\* a read stream that has yielded a chunk, with the store as it was
C27_WitnessRead ==
    /\ cur.kind = "read" /\ fpc = "reading" /\ rdData # <<>>
    /\ fs = fs0

\* a listing that went on and ended after another task had removed the
\* directory it was reading
C27_WitnessOther ==
    /\ cur.kind = "list" /\ lsEnded /\ cur.other = "done"
    /\ lsOut # <<>> /\ fs # fs0

(***************************************************************************)
(* Claims about the operations of the backends and the classification of   *)
(* API responses, checked under SpecOps.                                   *)
(***************************************************************************)
Ended == opPc = "done"

\* C19: no operation of either backend aborts: whatever the path and
\* whatever the store answers, an operation that has ended has returned a
\* value or a typed error.
C19_NoAbort == Ended => opResult # Abort

\* what the code does keep: list_objects of the B2 backend returns a value
\* or a typed error unless the body of the response cannot be read, B2's
\* get_object returns InvalidPath for a directory prefix, and every other
\* operation here aborts
AbortsWhereUnfinished ==
    Ended =>
        (opResult = Abort <=>
            IF opName = "list_objects"
            THEN opResponse.transport = "none" /\ ~opResponse.readable
            ELSE ~(opBackend = "B2" /\ opName = "get_object" /\ IsDirPrefix(opPath)))

\* B2's delete_object of the path a has ended in a panic
AbortedOperation ==
    /\ Ended /\ opBackend = "B2" /\ opName = "delete_object" /\ opPath = <<"a">>
    /\ opResult = Abort

\* a response that failed with the given HTTP status and carries an error
\* body of the same status
FailedWith(status) ==
    /\ Ended /\ opName = "list_objects"
    /\ opResponse.transport = "none" /\ opResponse.readable /\ opResponse.parses
    /\ opResponse.status = status /\ opResponse.error.status = status

\* C20: every non-success API response with HTTP status 503 is classified
\* as ConnectionFailed, whatever its error code.
C20_Status503 == FailedWith(503) => opResult = "ConnectionFailed"

\* what the code does keep: a 503 is ConnectionFailed exactly when its code
\* is bad_request, and OtherError for every other code
Status503ByCode ==
    FailedWith(503) =>
        opResult = IF opResponse.error.code = "bad_request" THEN "ConnectionFailed"
                   ELSE "OtherError"

\* a 503 with the code service_unavailable has been classified OtherError
Status503Other ==
    /\ FailedWith(503) /\ opResponse.error.code = "service_unavailable"
    /\ opResult = "OtherError"

\* a request of list_objects, the handshake or an API call, was answered
\* with a non-success status and an error body that parses, and
\* B2Client::request has made its error of it
Answered ==
    /\ opError.kind # "None"
    /\ opResponse.transport = "none" /\ opResponse.readable /\ opResponse.parses
    /\ ~IsSuccess(opResponse.status)

\* the (status, code) pairs the table of the claim names
ClaimedRows ==
    {<<401, "bad_auth_token">>, <<401, "expired_auth_token">>, <<400, "invalid_bucket_id">>}

\* the (status, code) pairs that generate_error names
TableRows ==
    {<<401, "bad_auth_token">>, <<400, "bad_request">>, <<400, "invalid_bucket_id">>,
     <<400, "out_of_range">>, <<401, "unauthorized">>, <<401, "expired_auth_token">>,
     <<401, "unsupported">>, <<503, "bad_request">>}

\* the rows the claim and the code have in common
CommonRows(method, e, error) ==
    /\ (e.status = 401 /\ e.code = "bad_auth_token") =>
        error.kind = IF method = "b2_authorize_account" THEN "AccessDenied"
                     ELSE "AccessExpired"
    /\ (e.status = 401 /\ e.code = "expired_auth_token") => error.kind = "AccessExpired"
    /\ (e.status = 400 /\ e.code = "invalid_bucket_id") => error.kind = "NotFound"

\* C21 as stated: generate_error classifies by the table: 401
\* bad_auth_token from the authorize method is AccessDenied, from any other
\* method AccessExpired; 401 expired_auth_token is AccessExpired; 400
\* invalid_bucket_id is NotFound; every other (status, code) is OtherError
\* whose message carries the status, the code and the message of the
\* response.
C21_ErrorTable ==
    Answered =>
        LET e == opResponse.error
        IN  /\ CommonRows(opMethod, e, opError)
            /\ <<e.status, e.code>> \notin ClaimedRows => opError = other_error(e)

\* C21 amended: the table has five more rows: 400 bad_request, 400
\* out_of_range and 401 unsupported are InternalError and 503 bad_request is
\* ConnectionFailed, each with the message of the response, and 401
\* unauthorized is AccessDenied; every (status, code) that is in none of the
\* eight rows is OtherError whose message carries the status, the code and
\* the message of the response.
C21_ErrorTableAmended ==
    Answered =>
        LET e == opResponse.error
            row == <<e.status, e.code>>
        IN  /\ CommonRows(opMethod, e, opError)
            /\ row \in {<<400, "bad_request">>, <<400, "out_of_range">>, <<401, "unsupported">>} =>
                opError = Carrying("InternalError", e)
            /\ row = <<401, "unauthorized">> => opError.kind = "AccessDenied"
            /\ row = <<503, "bad_request">> => opError = Carrying("ConnectionFailed", e)
            /\ row \notin TableRows => opError = other_error(e)

\* the handshake was answered 401 bad_auth_token and ended AccessDenied
C21_Witness ==
    /\ Answered /\ opMethod = "b2_authorize_account"
    /\ opResponse.error.status = 401 /\ opResponse.error.code = "bad_auth_token"
    /\ opError.kind = "AccessDenied" /\ opResult = "AccessDenied"

\* b2_list_file_names was answered 401 bad_auth_token, which is
\* AccessExpired, for the third time
C21_WitnessExpired ==
    /\ Answered /\ opMethod = "b2_list_file_names" /\ Ended
    /\ opResponse.error.status = 401 /\ opResponse.error.code = "bad_auth_token"
    /\ opError.kind = "AccessExpired" /\ opTries = API_RETRIES

\* a pair the table does not name ended OtherError with all it said
C21_WitnessOther ==
    /\ Answered /\ opResponse.error.status = 400 /\ opResponse.error.code = "unsupported"
    /\ opError = other_error(opResponse.error)

\* 400 bad_request, which the claim's table does not name, is InternalError
C21_WitnessInternal ==
    /\ Answered /\ opResponse.error.status = 400 /\ opResponse.error.code = "bad_request"
    /\ opError.kind = "InternalError" /\ opResult = "InternalError"

\* a request of list_objects, the handshake or an API call, was answered
\* with a body that can be read and does not parse as what its status calls
\* for
Unparsed ==
    /\ opError.kind # "None"
    /\ opResponse.transport = "none" /\ opResponse.readable /\ ~opResponse.parses

\* C22: a response whose body does not parse, a success response that is
\* not the expected JSON or a non-success response that is not a JSON error
\* body, makes the API call fail with InvalidData, which is not tried
\* again: list_objects returns it when the call is the handshake or
\* b2_list_buckets, and the stream it has returned yields it and ends when
\* the call is b2_list_file_names.
C22_UnparsedIsInvalidData ==
    Unparsed =>
        /\ opError.kind = "InvalidData"
        /\ Ended /\ opResult = "InvalidData"
        /\ opReturned = IF opCall = "b2_list_file_names" THEN "Ok" ELSE "InvalidData"

\* a success response to b2_list_file_names that does not parse: the
\* stream list_objects had returned ended with InvalidData
C22_Witness ==
    /\ Unparsed /\ IsSuccess(opResponse.status)
    /\ opMethod = "b2_list_file_names"
    /\ opReturned = "Ok" /\ opResult = "InvalidData"

\* a non-success response to b2_list_buckets that does not parse:
\* list_objects returned InvalidData
C22_WitnessFailure ==
    /\ Unparsed /\ opResponse.status = 503
    /\ opMethod = "b2_list_buckets"
    /\ opReturned = "InvalidData" /\ opResult = "InvalidData"

(***************************************************************************)
(* Claims about get_object of both backends, checked under SpecGet.        *)
(***************************************************************************)
\* C23: get_object on a directory-prefix path fails with InvalidPath on the
\* file backend and on the B2 backend, before any access: the file backend
\* never comes to stat the path and the B2 backend never comes to a request.
C23_DirPrefixIsInvalidPath ==
    /\ (cur.kind = "get" /\ IsDirPrefix(cur.path)) =>
        (fpc = "idle" /\ outcomes = <<Err("InvalidPath")>> /\ fs = fs0)
    /\ (opName = "get_object" /\ IsDirPrefix(opPath) /\ opPc # "called") =>
        (opPc = "done" /\ opResult = "InvalidPath")

\* both backends have answered a get_object of the directory prefix a/
C23_Witness ==
    /\ cur.kind = "get" /\ cur.path = <<"a", "">> /\ <<"a">> \in DOMAIN fs0
    /\ outcomes = <<Err("InvalidPath")>>
    /\ opBackend = "B2" /\ opPath = <<"a", "">> /\ opResult = "InvalidPath"

(***************************************************************************)
(* Claims about Fs, checked under SpecFsApi.                               *)
(***************************************************************************)
\* C25: every Fs operation validates its path before it dispatches:
\* list_files ends InvalidPath unless the path is a directory path, the
\* other four end InvalidPath if it is one, every operation ends InvalidPath
\* for a path that is not absolute or has a Windows prefix, and an
\* operation whose path is refused never invokes the backend; an operation
\* whose path passes invokes the backend once and returns its answer.
C25_PathValidated ==
    LET refused == \/ ~cfPath.absolute
                   \/ cfPath.windows
                   \/ (cfOp = "list_files") # cfPath.directory
    IN  /\ (cfPc # "called" /\ refused) =>
            (cfPc = "done" /\ cfResult = "InvalidPath" /\ cfInvoked = <<>>)
        /\ (cfPc = "done" /\ ~refused) => (cfInvoked = <<cfOp>> /\ cfResult = cfAnswer)

\* list_files of an absolute path that is not a directory path has ended
\* InvalidPath without a call to the backend
C25_Witness ==
    /\ cfPc = "done" /\ cfOp = "list_files"
    /\ cfPath = FsPath(TRUE, FALSE, FALSE)
    /\ cfResult = "InvalidPath" /\ cfInvoked = <<>>

\* delete_file of a valid file path has reached the backend
C25_WitnessDispatched ==
    /\ cfPc = "done" /\ cfOp = "delete_file"
    /\ cfInvoked = <<"delete_file">> /\ cfResult = "NotFound"

(***************************************************************************)
(* Claims about the buckets B2 list_objects lists, under SpecBuckets.      *)
(***************************************************************************)
\* the path list_objects works on: the prefix of the backend and the prefix
\* it is given, and what remains of it after the bucket
Joined == lbBackendPrefix.parts \o lbPrefix.parts

\* C26: when the path has parts after its first, list_objects asks for the
\* one bucket named exactly by the first part, and its listers are of that
\* bucket alone, whatever other buckets have names that begin with it.
C26_OnlyTheNamedBucket ==
    Len(Joined) >= 2 =>
        /\ lbPc = "requested" => lbRequest = Some(Joined[1])
        /\ lbRequest \in {None, Some(Joined[1])}
        /\ \A l \in lbListers : l.bucket = Joined[1]
        /\ (lbPc = "done" /\ lbResult = "Ok") =>
            /\ lbRequest = Some(Joined[1])
            /\ Joined[1] \in lbBuckets <=> lbListers # {}

\* a listing in b of an account that also holds the bucket bb has ended
\* with the lister of b alone
C26_Witness ==
    /\ lbPc = "done" /\ Len(Joined) >= 2 /\ Joined[1] = <<"b">>
    /\ <<"b", "b">> \in lbBuckets
    /\ {l.bucket : l \in lbListers} = {<<"b">>}

(***************************************************************************)
(* Claims about connect, checked under SpecConnect.                        *)
(***************************************************************************)
\* the B2 part of C29: a handle exists only with a cached session, which
\* the handshake of connect issued, and a first call on the handle takes
\* that session and sends no handshake
B2HandleAfterHandshake ==
    /\ cnB2 = "Handle" => (session = 1 /\ issued = 1 /\ lock = 0)
    /\ \A c \in Callers :
        /\ pc[c] # "idle" => cnB2 = "Handle"
        /\ pc[c] \in {"wait", "done"} => (handshakes[c] = 0 /\ authorization[c] = session)

\* C29 as stated: FileBackend::connect yields a handle exactly when the
\* root exists and is a directory, NotFound when it is missing and
\* InvalidSettings when it is not a directory; the B2 builder's connect
\* yields a handle only after a successful handshake whose session the
\* first API call uses.
C29_HandleAfterHandshake ==
    /\ cnFile # "None" =>
        /\ cnFile = "Handle" <=> IsDirectory(cnTree, cnRoot)
        /\ (cnRoot # <<>> /\ cnRoot \notin DOMAIN cnTree) => cnFile = "NotFound"
        /\ (cnRoot \in DOMAIN cnTree /\ ~IsDirectory(cnTree, cnRoot)) =>
            cnFile = "InvalidSettings"
    /\ B2HandleAfterHandshake

\* C29, amended: the same, with NotFound for a missing root when the host
\* reports not-found, and OtherError when the stat of the root fails
\* otherwise, as it does for a root beneath a regular file or a symlink.
C29_HandleAfterHandshakeAmended ==
    /\ cnFile # "None" =>
        /\ cnFile = "Handle" <=> IsDirectory(cnTree, cnRoot)
        /\ (cnRoot # <<>> /\ cnRoot \notin DOMAIN cnTree) =>
            cnFile = IF BlockedBy(cnTree, cnRoot) THEN "OtherError" ELSE "NotFound"
        /\ (cnRoot \in DOMAIN cnTree /\ ~IsDirectory(cnTree, cnRoot)) =>
            cnFile = "InvalidSettings"
    /\ B2HandleAfterHandshake

\* the file backend refused a root that is a regular file, and a call on
\* the B2 handle has sent its request with the session of connect
C29_Witness ==
    /\ cnRoot \in DOMAIN cnTree /\ cnTree[cnRoot].type = "File"
    /\ cnFile = "InvalidSettings"
    /\ cnB2 = "Handle"
    /\ \E c \in Callers : pc[c] = "wait" /\ authorization[c] = 1

(***************************************************************************)
(* The buffer of the read stream, checked under SpecReader.                *)
(***************************************************************************)
\* utils.rs 83-91: after a read of some bytes the remainder of the buffer is
\* kept when it has minimum_size bytes or more, and a buffer of
\* initial_size bytes replaces it otherwise
RefreshRule ==
    rsPos' # rsPos =>
        LET left == rsBuffer - (rsPos' - rsPos)
        IN  rsBuffer' = IF left < rsMinimum THEN rsInitial ELSE left

\* C30 as stated: for any initial_size and minimum_size every read is into
\* a buffer region of at least minimum_size bytes, a remainder below
\* minimum_size being replaced by a fresh buffer of initial_size bytes and
\* any other remainder reused.
C30_ReadRegion ==
    /\ [](~rsEnded => rsBuffer >= rsMinimum)
    /\ [][RefreshRule]_vars

\* C30, amended: the same for an initial_size of at least minimum_size; a
\* smaller initial_size makes every read one into initial_size bytes.
C30_ReadRegionAmended ==
    /\ []((rsInitial >= rsMinimum /\ ~rsEnded) => rsBuffer >= rsMinimum)
    /\ []((rsInitial < rsMinimum /\ ~rsEnded) => rsBuffer = rsInitial)
    /\ [][RefreshRule]_vars

\* the stream has read more than one buffer of bytes, so it has replaced
\* its buffer, and now reads into a remainder it kept
C30_Witness ==
    /\ rsMinimum > 0 /\ rsInitial >= rsMinimum
    /\ rsPos > rsInitial
    /\ rsBuffer < rsInitial
    /\ ~rsEnded

(***************************************************************************)
(* Pending polls of the paginated listing, checked under SpecList.         *)
(***************************************************************************)
\* the stream has returned Poll::Pending: it has not ended and no poll of
\* it is due
ReportedPending == ~wake /\ ~ended

\* C31: whenever the listing stream reports pending, the request it waits
\* for has been polled, so its completion wakes the stream; a page of no
\* items with a next cursor does not stall it.
C31_PendingIsPolled == ReportedPending => future.st = "inflight"

\* the pending polls that do hold a polled request are those of a page
\* still in flight; the others follow an empty page that carried a cursor
PendingUnpolledOnlyAfterEmptyPage ==
    (ReportedPending /\ future.st # "inflight") =>
        /\ future.st = "new"
        /\ future.start > 0
        /\ pageSizes[future.start] = 0

(***************************************************************************)
(* Handshakes of concurrent callers, checked under SpecB2.                 *)
(***************************************************************************)
\* the callers whose authorize handshake is in flight
Authorizing == {c \in Callers : pc[c] = "authorizing"}

\* the session with the token has expired: a request made with it was
\* answered AccessExpired
Expired(token) ==
    \E c \in Callers : \E i \in 1..Len(attempts[c]) :
        attempts[c][i] = <<token, "AccessExpired">>

\* the caller d has waited in session() while the handshake of another
\* caller was in flight, and that handshake has succeeded
Waited(d) == awaited[d] # 0

\* C32 as stated: at most one authorize handshake is in flight per backend
\* handle; and every caller that waited for the session while the handshake
\* of another caller was in flight, once that handshake has succeeded,
\* leaves session() with the session of that handshake and sends no
\* handshake of its own.
C32_OneHandshake ==
    /\ [](Cardinality(Authorizing) <= 1)
    /\ [][\A d \in Callers :
            (pc[d] = "session" /\ Waited(d) /\ pc'[d] # "session") =>
                /\ pc'[d] \in {"wait", "done"}
                /\ authorization'[d] = awaited[d]
                /\ handshakes'[d] = handshakes[d]]_vars

\* C32 amended: at most one authorize handshake is in flight per backend
\* handle, sent by the holder of the session lock; a caller sends one only
\* when it finds the cache empty and no other in flight, and every caller
\* that finds a session cached takes it and sends none; a handshake that
\* succeeds caches its session, and the cache is emptied only by the
\* reset_session of a caller whose request with the cached token was
\* answered AccessExpired.  So a caller that waited through a handshake
\* finds its session cached, and uses it without sending another, unless a
\* request made with that session has been answered AccessExpired and the
\* cache has been emptied before the caller comes to it.
C32_OneHandshakeAmended ==
    /\ [](Cardinality(Authorizing) <= 1 /\ \A c \in Authorizing : lock = c)
    /\ [][\A d \in Callers :
            (pc[d] = "session" /\ pc'[d] # "session") =>
                IF session # 0
                THEN /\ pc'[d] \in {"wait", "done"}
                     /\ authorization'[d] = session
                     /\ handshakes'[d] = handshakes[d]
                ELSE /\ pc'[d] = "authorizing"
                     /\ handshakes'[d] = handshakes[d] + 1
                     /\ Authorizing = {}]_vars
    /\ [][session' # session =>
            \/ /\ session = 0 /\ session' = issued'
               /\ \E c \in Authorizing : pc'[c] \in {"wait", "done"} /\ authorization'[c] = session'
            \/ /\ session' = 0 /\ Expired(session)
               /\ \E c \in Callers : pc[c] = "reset" /\ pc'[c] # "reset"
                                        /\ authorization[c] = session]_vars
    /\ [](\A d \in Callers :
            (pc[d] = "session" /\ Waited(d)) =>
                \/ session = awaited[d]
                \/ session = 0 /\ Expired(awaited[d]))

\* the caller d, whose request with the first session was answered
\* AccessExpired, emptied the cache and came back to session(); the caller
\* c, which never saw the first session, took the lock first and sent the
\* handshake; d, which waited in session() while it was in flight, has sent
\* its next request with the token of that handshake and no handshake of
\* its own
C32_Witness ==
    \E c, d \in Callers :
        /\ c # d
        /\ handshakes[c] = 1 /\ handshakes[d] = 0
        /\ attempts[c] # <<>> /\ Token(attempts[c][1]) = 2
        /\ Len(attempts[d]) = 2
        /\ attempts[d][1] = <<1, "AccessExpired">> /\ Token(attempts[d][2]) = 2
        /\ authorization[d] = 2 /\ pc[d] = "wait" /\ issued = 2

\* a caller has waited in session() through the handshake of another, and
\* the session of that handshake is cached for it
C32_WitnessWaited ==
    \E d \in Callers : pc[d] = "session" /\ awaited[d] = 2 /\ session = 2 /\ lock = 0

\* the session of the handshake expired before the caller that waited
\* through it came to the cache: that caller has sent a handshake of its
\* own, and its next request with the token of its own handshake
C32_WitnessExpired ==
    \E c, d \in Callers :
        /\ c # d
        /\ handshakes[c] = 1 /\ handshakes[d] = 1
        /\ Len(attempts[c]) = 1 /\ attempts[c][1] = <<2, "AccessExpired">>
        /\ Len(attempts[d]) = 2
        /\ attempts[d][1] = <<1, "AccessExpired">> /\ Token(attempts[d][2]) = 3
        /\ authorization[d] = 3

(***************************************************************************)
(* Errors other than AccessExpired, checked under SpecB2.                  *)
(***************************************************************************)
LastAttempt(c) == attempts[c][Len(attempts[c])]

\* the response of an attempt is an error of a kind other than AccessExpired
OtherFailure(a) == Resp(a) \in ErrorKinds \ {"AccessExpired"}

\* the call has returned an error of a kind other than AccessExpired
FailedOther(c) == pc[c] = "done" /\ result[c] \in ErrorKinds \ {"AccessExpired"}

\* C33 as stated: an API call that fails with an error of any kind other
\* than AccessExpired, and not by a failed handshake (that is C34), has sent
\* a request attempt, the one that failed, and sent none after it.
C33_OneAttemptSent ==
    [][\A c \in Callers :
        (/\ pc[c] # "done" /\ FailedOther(c)'
         /\ ~(pc[c] = "authorizing" /\ issued' = issued)) =>
            /\ Len(attempts'[c]) >= 1
            /\ OtherFailure(attempts'[c][Len(attempts'[c])])
            /\ session' = session]_vars

\* C33, amended: an API call whose request attempt fails with an error of
\* any kind other than AccessExpired is not retried and leaves the cached
\* session as it is: the failed attempt is the last the call sends (the only
\* one when it is the first), the call returns its error, and the step that
\* takes the response changes neither the cache nor the lock.  A call may
\* also return such an error from session() or from building the request:
\* that step sends no attempt and counts no try.
C33_OtherErrorNotRetried ==
    /\ [](\A c \in Callers : \A i \in 1..Len(attempts[c]) :
            OtherFailure(attempts[c][i]) =>
                /\ i = Len(attempts[c])
                /\ pc[c] = "done"
                /\ result[c] = Resp(attempts[c][i]))
    /\ [][\A c \in Callers :
            (pc[c] = "wait" /\ Len(attempts'[c]) > 0 /\ OtherFailure(attempts'[c][Len(attempts'[c])])) =>
                /\ pc'[c] = "done"
                /\ Len(attempts'[c]) = Len(attempts[c])
                /\ session' = session
                /\ lock' = lock
                /\ issued' = issued]_vars
    /\ [][\A c \in Callers :
            (pc[c] \in {"session", "authorizing"} /\ FailedOther(c)') =>
                /\ attempts'[c] = attempts[c]
                /\ tries'[c] = tries[c]]_vars

\* a call has returned OtherError after its one attempt, and the cache
\* holds the session the attempt was sent with
C33_Witness ==
    \E c \in Callers :
        /\ pc[c] = "done" /\ result[c] = "OtherError"
        /\ Len(attempts[c]) = 1 /\ OtherFailure(attempts[c][1])
        /\ session = Token(attempts[c][1])

(***************************************************************************)
(* A handshake that fails inside an API call, checked under SpecB2.        *)
(***************************************************************************)
\* C34: when the authorize handshake of an API call fails, with
\* AccessExpired or any other kind, the call returns that error at once: it
\* does not retry, sends no API request, and the cache stays empty.
C34_HandshakeFailureReturns ==
    [][\A c \in Callers :
        (pc[c] = "authorizing" /\ pc'[c] # "authorizing" /\ session' = 0
            /\ result'[c] # "Abort") =>
            /\ pc'[c] = "done"
            /\ result'[c] \in ErrorKinds
            /\ attempts'[c] = attempts[c]
            /\ tries'[c] = tries[c]
            /\ handshakes'[c] = handshakes[c]
            /\ session = 0
            /\ lock' = 0]_vars

\* a call whose first attempt expired sent a handshake, which failed with
\* AccessExpired: the call has returned it with retries left, and the cache
\* is empty
C34_Witness ==
    \E c \in Callers :
        /\ pc[c] = "done" /\ result[c] = "AccessExpired"
        /\ Len(attempts[c]) = 1 /\ tries[c] = 1
        /\ handshakes[c] = 1
        /\ session = 0

(***************************************************************************)
(* A failed page request of the listing, checked under SpecList.           *)
(***************************************************************************)
IsErrItem(item) == item = ErrItem
IsFile(item) == item # ErrItem

\* the stream has taken the response of a failed page request
PageFailed == \E i \in 1..Len(yielded) : IsErrItem(yielded[i])

\* C35: when a page request fails, the stream yields the error once, sends
\* no further request, and ends after it has emitted the items of the pages
\* received before: none of them is lost and none emitted twice.
C35_FailedPage ==
    PageFailed =>
        /\ Len(SelectSeq(yielded, IsErrItem)) = 1
        /\ future = NoFuture
        /\ requests = SubSeq(Cursors, 1, failAt)
        /\ SelectSeq(yielded, IsFile) \o results = ItemsUpTo(failAt - 1)
        /\ ended => results = <<>>
        /\ (~ENABLED NextList) => ended

\* the request of the second page failed while an item of the first was
\* still buffered: the error came first, the item after it, then the end
C35_Witness ==
    /\ failAt = 2
    /\ ended
    /\ \E i \in 1..Len(yielded) : IsErrItem(yielded[i]) /\ i < Len(yielded)

(***************************************************************************)
(* Releases of a guard, checked under SpecPool.                            *)
(***************************************************************************)
\* C36: releasing a guard is idempotent: a release() followed by more
\* release() calls or by the drop of the guard returns one permit, so the
\* free permits and the guards that hold a permit always add up to K, and
\* a step on a guard that has released its permit leaves the count as it is.
C36_ReleaseIdempotent ==
    /\ [](permits + Cardinality(HeldGuards) = poolK /\ permits <= poolK)
    /\ [][\A g \in Guards :
            (guard[g] = "released"
                /\ (guard'[g] # guard[g] \/ releaseCalls'[g] # releaseCalls[g]))
                => permits' = permits]_vars

\* a guard was released twice and then dropped while another guard holds
\* the other permit of a pool of two
C36_Witness ==
    /\ poolK = 2 /\ permits = 1
    /\ \E g \in Guards : guard[g] = "dropped" /\ releaseCalls[g] = 2
    /\ Cardinality(HeldGuards) = 1

(***************************************************************************)
(* Reads into an empty buffer, checked under SpecReader.                   *)
(***************************************************************************)
\* C37: for an initial_size of at least 1 and any minimum_size, 0 included,
\* the stream never reads into an empty buffer, so it ends only at a
\* zero-length read of the source, having emitted all of its bytes.
C37_NoEmptyRead ==
    rsInitial >= 1 =>
        /\ ~rsEnded => rsBuffer >= 1
        /\ rsEnded => rsPos = rsLen

\* what holds of the code: the same for a minimum_size of at least 1
NoEmptyReadAboveZero ==
    (rsInitial >= 1 /\ rsMinimum >= 1) =>
        /\ ~rsEnded => rsBuffer >= 1
        /\ rsEnded => rsPos = rsLen

\* with a minimum_size of 0 the stream has ended with bytes of the source
\* unread, after a read into the buffer it had used up
TruncatedByEmptyBuffer ==
    /\ rsInitial >= 1 /\ rsMinimum = 0
    /\ rsEnded /\ rsBuffer = 0
    /\ rsPos < rsLen

(***************************************************************************)
(* The recursive listing and symlinks, checked under SpecWalkFair.         *)
(***************************************************************************)
\* the yielded entries that symlink_metadata reports as directories
YieldedDirectories ==
    {wkOut[i].path : i \in {j \in 1..Len(wkOut) : wkOut[j].err = "None"
                                                    /\ wkOut[j].type = "Directory"}}

\* no directory was read twice
ReadOnce == \A i, j \in 1..Len(wkReads) : wkReads[i] = wkReads[j] => i = j

\* every stream the lister holds is that of a yielded entry that is a
\* directory itself, or that of the prefix's parent, which the listing
\* starts from; and so is every read
OnlyRealDirectories ==
    /\ wkStreams \subseteq YieldedDirectories \cup {PopPart(wkPrefix)}
    /\ {open.path : open \in wkOpen} \subseteq YieldedDirectories \cup {PopPart(wkPrefix)}
    /\ Len(wkReads) <= 1 + Cardinality(YieldedDirectories)

\* C38: the recursive listing descends only into entries that are real
\* directories, never through a symlink; for any tree, symlinks to ancestor
\* directories included, it reads each directory at most once and ends.
C38_ListingTerminates ==
    /\ [](ReadOnce /\ OnlyRealDirectories)
    /\ <>wkEnded

\* a listing has ended that read a directory and yielded a symlink in it
\* that points back to an ancestor of that directory
C38_Witness ==
    /\ wkEnded
    /\ Len(wkReads) >= 2
    /\ \E i \in 1..Len(wkOut) :
        /\ wkOut[i].err = "None" /\ wkOut[i].type = "Symlink"
        /\ Len(wkOut[i].path) >= 2
        /\ wkOut[i].path \in DOMAIN wkLinks
        /\ wkLinks[wkOut[i].path] \in Ancestors(wkOut[i].path)

(***************************************************************************)
(* A listing that fails inside delete_directory, checked under SpecFS.     *)
(***************************************************************************)
\* the listing of delete_directory has yielded an error
EnumerationFailed == cur.kind \in {"delete", "write"} /\ Failed(lsOut)

\* the call has come to delete_directory
InDeleteDirectory ==
    cur.kind \in {"delete", "write"} /\ lsPrefix = PushPart(cur.path, "")

\* C39: when enumerating the contents of a directory fails, delete_object
\* on the directory, and the delete step of write_file_from_stream, fail
\* with that error and have removed nothing: the store is as it was, or as
\* another task has made it; and delete_directory removes an entry only
\* after the whole listing was collected without an error.
C39_NothingRemovedOnListingError ==
    /\ EnumerationFailed =>
        /\ removals = <<>> /\ rmQueue = <<>>
        /\ StoreAsLeft
        /\ wrFile = NoWriter
        /\ fpc \in {"collect", "idle"}
        /\ fpc = "idle" =>
            outcomes = <<IF cur.kind = "write" THEN TargetError(lsOut[Len(lsOut)].err)
                         ELSE Err(lsOut[Len(lsOut)].err)>>
    /\ (InDeleteDirectory /\ (removals # <<>> \/ fpc = "removing")) =>
            lsEnded /\ ~Failed(lsOut)

\* a delete of a directory has failed after its listing had yielded a file
\* and then the error of a directory it could not read; nothing is removed
C39_Witness ==
    /\ Finished("delete") /\ EnumerationFailed
    /\ Len(lsOut) >= 3
    /\ \E i \in Listed : lsOut[i].type = "File"
    /\ outcomes[1] = Err("OtherError")
    /\ fs = fs0

\* the same in the delete step of a write onto a directory
C39_WitnessWrite ==
    /\ Finished("write") /\ EnumerationFailed
    /\ outcomes[1] = TargetError("OtherError")
    /\ fs = fs0

\* another task removed the directory between the stat of delete_object
\* and the read_dir of its listing: the delete failed with the NotFound of
\* the listing and removed nothing
C39_WitnessOther ==
    /\ Finished("delete") /\ EnumerationFailed /\ cur.other = "done"
    /\ outcomes[1] = Err("NotFound")
    /\ removals = <<>> /\ fs # fs0

(***************************************************************************)
(* A write that ends with SourceError, checked under SpecFS.               *)
(***************************************************************************)
\* the chunks the source yielded before its error item
ChunksBeforeError == SubSeq(cur.chunks, 1, Taken - 1)

\* C40: when write_file_from_stream fails with SourceError after the source
\* has yielded k chunks, the file the call created holds exactly those k
\* chunks in order, and what was at the path before the call, with all
\* that was in it, is removed and not put back: the path holds that file
\* and nothing beneath it.  With another task at work on the path the file
\* holds the same and the path shows it while it names the file; nothing
\* is beneath the path and no file at it holds anything else.
C40_SourceErrorLeavesPartialFile ==
    (Finished("write") /\ outcomes[1].tag = "SourceError") =>
        LET target == get_std_path(cur.path)
            written == Bytes(SumLens(ChunksBeforeError))
        IN  /\ Taken >= 1 /\ IsSourceError(cur.chunks[Taken])
            /\ \A i \in 1..(Taken - 1) : ~IsSourceError(cur.chunks[i])
            /\ wrFile.type = "File" /\ wrFile.data = written
            /\ wrFile.linked => (target \in DOMAIN fs /\ fs[target] = FileEntry(written))
            /\ \A q \in DOMAIN fs : IsPrefix(target, q) => q = target
            /\ (target \in DOMAIN fs /\ fs[target].type = "File") => fs[target].data = written
            /\ cur.other # "done" =>
                /\ wrFile.linked
                /\ target \in DOMAIN fs0 =>
                    /\ removals # <<>>
                    /\ removals[Len(removals)] = [path |-> target, type |-> fs0[target].type]
                /\ \A q \in DOMAIN fs0 : Inside(fs0, target, q) =>
                    \E i \in 1..Len(removals) : removals[i].path = q

\* a write onto a path that held a file failed with SourceError after two
\* chunks: the file holds the three bytes of those chunks
C40_Witness ==
    /\ Finished("write") /\ outcomes[1] = SourceError("OtherError")
    /\ Taken = 3
    /\ get_std_path(cur.path) \in DOMAIN fs0
    /\ fs0[get_std_path(cur.path)].type = "File"
    /\ wrFile.linked
    /\ fs[get_std_path(cur.path)].data = Bytes(3)

\* the same onto a path that held a directory with an entry in it
C40_WitnessDirectory ==
    /\ Finished("write") /\ outcomes[1] = SourceError("OtherError")
    /\ IsDirectory(fs0, get_std_path(cur.path)) /\ get_std_path(cur.path) # <<>>
    /\ Len(removals) >= 2
    /\ wrFile.linked
    /\ fs[get_std_path(cur.path)].type = "File"

\* the same with another task that removed the file from the path while
\* it was written: the file holds the chunk, the path holds nothing
C40_WitnessOther ==
    /\ Finished("write") /\ outcomes[1] = SourceError("OtherError")
    /\ cur.other = "done" /\ ~wrFile.linked
    /\ wrFile.data = Bytes(1)
    /\ get_std_path(cur.path) \in DOMAIN fs0
    /\ get_std_path(cur.path) \notin DOMAIN fs

========
